---- MODULE Spec2Model ----
(***************************************************************************)
(* The state store of the Stuff task board (context/Store.tsx, bundled in  *)
(* src/src/types.ts from line 46 on) and the board's drag-end handler      *)
(* (components/Board.tsx), as a state machine.                             *)
(*                                                                         *)
(* Strings that the code takes apart or builds (ids made by template       *)
(* literals, column titles, task titles) are sequences of tokens, so that  *)
(* `virtual-${title}`, startsWith, replace, toLowerCase and includes are   *)
(* computed and not looked up.  Arrays are sequences, in store order.      *)
(* An optional field (archivedAt) is a field that is in the record's       *)
(* DOMAIN or not.  A value that is null or an object (pendingArchive,      *)
(* activeModal, priorityFilter) is a sequence of length 0 or 1.            *)
(***************************************************************************)
EXTENDS Integers, Sequences, FiniteSets, TLC

\* ------------------------------------------------------------------ bounds

\* Task ids `t${Date.now()}` handed out by the board: t1 .. tMaxTasks.
MaxTasks == 2
\* One step of the clock, in ms.
TickMs == 5000
\* The last instant, in ms, at which a delete is still started.
MaxNow == 5000
\* How many workspaces and projects are created in a session of the
\* workspace tree, one per reading of the clock.
MaxAdds == 2
\* One step of the clock in a session with auto-backup, in ms.
BackupTickMs == 15000
\* The last instant, in ms, from which that clock still advances.
MaxBackupNow == 45000
\* How many backup files a session writes before auto-backup is no longer
\* switched on again.
MaxBackups == 2
\* How many files a session imports.
MaxImports == 1
\* How many subtasks are added to one task.
MaxSubtasks == 2

\* ------------------------------------------------------- program constants

\* deleteTask: window.setTimeout(..., 5000), the undo window.
ARCHIVE_UNDO_MS == 5000

\* --------------------------------------------------------------- sequences

\* { ...a, ...b }: b's fields over a's.
Spread(a, b) ==
    [f \in DOMAIN a \cup DOMAIN b |-> IF f \in DOMAIN b THEN b[f] ELSE a[f]]

\* const { k, ...rest } = a
Omit(a, k) == [f \in DOMAIN a \ {k} |-> a[f]]

\* ----------------------------------------------------------------- strings

\* String.prototype.toLowerCase, token by token.
LowerTok(c) ==
    CASE c = "A" -> "a"
      [] c = "B" -> "b"
      [] c = "T" -> "t"
      [] c = "D" -> "d"
      [] OTHER -> c

\* Mutant: the case is kept.
toLowerCase_Identity(s) == s

toLowerCase(s) == [i \in 1..Len(s) |-> LowerTok(s[i])]

\* String.prototype.includes
includes(s, q) ==
    \E i \in 1..(Len(s) + 1) :
        /\ i + Len(q) - 1 <= Len(s)
        /\ SubSeq(s, i, i + Len(q) - 1) = q

\* String.prototype.trim: without the spaces at either end.
trim(s) ==
    LET inked == {i \in 1..Len(s) : s[i] # " "}
    IN IF inked = {} THEN <<>>
       ELSE SubSeq(s, CHOOSE i \in inked : \A j \in inked : i <= j,
                      CHOOSE i \in inked : \A j \in inked : j <= i)

\* String.prototype.startsWith, for a one-token prefix.
startsWith(s, tok) == Len(s) >= 1 /\ s[1] = tok

\* String.prototype.replace(tok, ''): the first occurrence only.
replaceFirst(s, tok) ==
    IF \E i \in 1..Len(s) : s[i] = tok
    THEN LET k == CHOOSE i \in 1..Len(s) :
                      s[i] = tok /\ \A j \in 1..(i - 1) : s[j] # tok
         IN SubSeq(s, 1, k - 1) \o SubSeq(s, k + 1, Len(s))
    ELSE s

VIRTUAL == "virtual-"

\* `virtual-${c.title}`
VirtualId(title) == <<VIRTUAL>> \o title

\* `t${Date.now()}`, the n-th reading of the clock by the board
TaskId(n) == <<"t", ToString(n)>>

\* ------------------------------------------------------------- seed data

TITLE_TODO == <<"To Do">>
TITLE_DONE == <<"Done">>

\* One column as generateDefaultColumns(projectId) makes it:
\* id `col-${projectId}-${slug}`.
DefaultColumn(projectId, slug, title, color) ==
    [id |-> <<"col-", projectId, slug>>, projectId |-> projectId,
     title |-> title, color |-> color]

INITIAL_WORKSPACES == << [id |-> "w1", name |-> <<"My Workspace">>] >>

\* The saved projects the session starts from: the first two of the seed.
INITIAL_PROJECTS ==
    << [id |-> "p1", workspaceId |-> "w1", name |-> <<"Product Launch v2">>],
       [id |-> "p2", workspaceId |-> "w1", name |-> <<"Website Redesign">>] >>

\* The saved columns the session starts from: p1 has kept To Do and Done of
\* its default columns, p2 only To Do.
INITIAL_COLUMNS ==
    << DefaultColumn("p1", "-todo", TITLE_TODO, "zinc"),
       DefaultColumn("p1", "-done", TITLE_DONE, "emerald"),
       DefaultColumn("p2", "-todo", TITLE_TODO, "zinc") >>

\* The saved tasks the session starts from: one task, in p1's To Do.
INITIAL_TASKS ==
    << [id |-> TaskId(1), projectId |-> "p1", title |-> <<"T", "a">>,
        description |-> <<"d">>, priority |-> <<"High">>,
        columnId |-> <<"col-", "p1", "-todo">>, labels |-> <<>>] >>

\* ------------------------------------------------------------------ state

VARIABLES
    workspaces,         \* useState<Workspace[]>
    projects,           \* useState<Project[]>
    columns,            \* useState<ColumnConfig[]>
    tasks,              \* useState<Task[]>: the live collection
    customViews,        \* useState<CustomView[]>
    labels,             \* useState<Label[]>
    activeWorkspaceId,
    activeProjectId,
    viewFilter,         \* 'project' | 'recent' | a custom view's id
    searchQuery,
    priorityFilter,     \* null (<<>>) or <<priority>>
    recentViewGlobal,
    archivedTasks,      \* useState<Task[]>: the archived collection
    pendingArchive,     \* null (<<>>) or <<[task, timeoutId]>>
    activeModal,        \* null (<<>>) or <<the confirm dialog's onConfirm closure>>
    timeouts,           \* the browser's armed timeouts: [id, task, due]
    now,                \* Date.now(), in ms since the session began
    nextTaskNo,         \* how many task ids have been handed out, plus one
    lastCall,           \* history: the last call made on the tasks
    isAutoBackupEnabled,    \* useState<boolean>
    backupTimeoutRef,   \* useRef: null (<<>>) or <<the handle of the last backup timeout>>
    backupTimeouts,     \* the browser's armed backup timeouts: [id, due]
    backupLog,          \* history: the backup files written, when the
                        \* Auto-Backup effect last armed its timeout, and
                        \* how many files were imported
    backupFile          \* the file exportData last downloaded: none (<<>>)
                        \* or <<its data, and the store it was made from>>

storeVars == <<workspaces, projects, columns, customViews, labels, activeWorkspaceId,
               activeProjectId, viewFilter, searchQuery, priorityFilter,
               recentViewGlobal>>

vars == <<workspaces, projects, columns, tasks, customViews, labels, activeWorkspaceId,
          activeProjectId, viewFilter, searchQuery, priorityFilter,
          recentViewGlobal, archivedTasks, pendingArchive, activeModal,
          timeouts, now, nextTaskNo, lastCall, isAutoBackupEnabled,
          backupTimeoutRef, backupTimeouts, backupLog, backupFile>>

backupVars == <<isAutoBackupEnabled, backupTimeoutRef, backupTimeouts, backupLog,
                backupFile>>

\* lastCall, the last call made on the tasks: the operation, the task id it
\* was given, whether the task was in the state the operation expects, and what the claims compare the outcome
\* with (pre): for a delete and for a timeout the collections before it, a
\* delete's kept through the undo that follows it; for a restore the archived
\* entries of that id; for a drag-end the event's over.
\* No backup file written, no backup timeout armed, no file imported yet.
NoBackups == [writes |-> <<>>, armedAt |-> <<>>, imports |-> 0]

NoCall == [op |-> "none", id |-> <<>>, acted |-> FALSE, pre |-> <<>>]

Call(op, id, acted) == [op |-> op, id |-> id, acted |-> acted, pre |-> <<>>]

Init ==
    /\ workspaces = INITIAL_WORKSPACES
    /\ projects = INITIAL_PROJECTS
    /\ columns = INITIAL_COLUMNS
    /\ tasks = INITIAL_TASKS
    /\ customViews = <<>>
    /\ labels = <<>>
    /\ activeWorkspaceId = "w1"
    /\ activeProjectId = "p1"
    /\ viewFilter = <<"project">>
    /\ searchQuery = <<>>
    /\ priorityFilter = <<>>
    /\ recentViewGlobal = FALSE
    /\ archivedTasks = <<>>
    /\ pendingArchive = <<>>
    /\ activeModal = <<>>
    /\ timeouts = {}
    /\ now = 0
    /\ nextTaskNo = 2
    /\ lastCall = NoCall
    /\ isAutoBackupEnabled = FALSE
    /\ backupTimeoutRef = <<>>
    /\ backupTimeouts = {}
    /\ backupLog = NoBackups
    /\ backupFile = <<>>

\* ------------------------------------------------------------ collections

Ids(s) == {s[i].id : i \in 1..Len(s)}

LiveIds == Ids(tasks)
ArchivedIds == Ids(archivedTasks)
PendingIds == {pendingArchive[i].task.id : i \in 1..Len(pendingArchive)}

\* Every task id the board has handed out so far, and one it never does.
UNKNOWN_ID == <<"t", "none">>
IssuedIds == {TaskId(n) : n \in 1..(nextTaskNo - 1)}
TaskIdInputs == IssuedIds \cup {UNKNOWN_ID}

\* ------------------------------------------------------------- timeouts

\* window.setTimeout's handle: an integer greater than zero that names no
\* armed timeout.
FreshTimeoutId(armed) ==
    CHOOSE h \in 1..(Cardinality(armed) + 1) : \A tm \in armed : tm.id # h

\* Mutant: clearTimeout cancels nothing.
clearTimeout_Noop(armed, handle) == armed

\* clearTimeout(handle)
clearTimeout(armed, handle) == {tm \in armed : tm.id # handle}

\* new Date().toISOString(): the instant's digits, then the zone letter.
toISOString(ms) == <<ToString(ms), "Z">>

\* Mutant: the task enters the archive as it is.
Stamped_Bare(task, ms) == task

\* { ...task, archivedAt: new Date().toISOString() }
Stamped(task, ms) == Spread(task, [archivedAt |-> toISOString(ms)])

\* ---------------------------------------------------------- view resolver

PROJECT == <<"project">>
RECENT == <<"recent">>
MY_TASKS == <<"my_tasks">>

\* Mutant: the projects of every workspace.
FilteredProjectsOf_All(projs, awid) == projs

\* projects.filter(p => p.workspaceId === activeWorkspaceId)
FilteredProjectsOf(projs, awid) ==
    SelectSeq(projs, LAMBDA p : p.workspaceId = awid)

filteredProjects == FilteredProjectsOf(projects, activeWorkspaceId)

\* filteredProjects.find(p => p.id === activeProjectId), as a 0/1-sequence
ActiveProjectOf(projs, awid, apid) ==
    LET hits == SelectSeq(FilteredProjectsOf(projs, awid), LAMBDA p : p.id = apid)
    IN IF hits = <<>> THEN <<>> ELSE <<Head(hits)>>

activeProject == ActiveProjectOf(projects, activeWorkspaceId, activeProjectId)

\* Mutant: the labels are compared as they are written.
MatchesLabels_Exact(t, filterValue) ==
    LET filterLabels == IF filterValue.isArray THEN filterValue.value
                        ELSE <<filterValue.value>>
    IN \E i \in 1..Len(t.labels) : \E j \in 1..Len(filterLabels) :
           t.labels[i] = filterLabels[j]

\* A view's filterValue is a string or an array of strings:
\* [isArray |-> FALSE, value |-> s] or [isArray |-> TRUE, value |-> <<s, ...>>].
\* t.labels.some(taskLabel => filterLabels.some(filterLabel => ...))
MatchesLabels(t, filterValue) ==
    LET filterLabels == IF filterValue.isArray THEN filterValue.value
                        ELSE <<filterValue.value>>
    IN \E i \in 1..Len(t.labels) : \E j \in 1..Len(filterLabels) :
           toLowerCase(t.labels[i]) = toLowerCase(filterLabels[j])

\* The view stage of filteredTasks for a custom view (0/1-sequence acv).
MatchesCustomView(t, acv) ==
    IF acv = <<>> THEN TRUE
    ELSE IF acv[1].filterType = "priority"
         THEN ~acv[1].filterValue.isArray /\ t.priority = acv[1].filterValue.value
         ELSE IF acv[1].filterType = "label"
              THEN MatchesLabels(t, acv[1].filterValue)
              ELSE TRUE

\* filteredTasks, for any store and view selection.
FilteredTasksOf(ts, projs, views, awid, apid, vf, q, pf, rvg) ==
    LET workspaceProjectIds == Ids(FilteredProjectsOf(projs, awid))
        hits == SelectSeq(views, LAMBDA v : v.id = vf)
        activeCustomView == IF hits = <<>> THEN <<>> ELSE <<Head(hits)>>
        isGlobalView == activeCustomView # <<>> /\ activeCustomView[1].allWorkspaces
        isRecentGlobal == vf = RECENT /\ rvg
        matchesView(t) ==
            IF vf = PROJECT THEN t.projectId = apid
            ELSE IF vf = RECENT THEN TRUE
                 ELSE MatchesCustomView(t, activeCustomView)
        matchesSearch(t) ==
            \/ includes(toLowerCase(t.title), toLowerCase(q))
            \/ includes(toLowerCase(t.description), toLowerCase(q))
        matchesPriority(t) == IF pf # <<>> THEN t.priority = pf ELSE TRUE
        keep(t) ==
            /\ ~(~isGlobalView /\ ~isRecentGlobal
                 /\ t.projectId \notin workspaceProjectIds)
            /\ matchesView(t) /\ matchesSearch(t) /\ matchesPriority(t)
    IN SelectSeq(ts, keep)

filteredTasks ==
    FilteredTasksOf(tasks, projects, customViews, activeWorkspaceId,
                    activeProjectId, viewFilter, searchQuery, priorityFilter,
                    recentViewGlobal)

\* ------------------------------------------------------- task mutations

\* The task the board's add button makes (handleAddNewTask's defaults) in
\* project p, column c.
NewTask(p, c) ==
    [id |-> TaskId(nextTaskNo), projectId |-> p, title |-> <<"Untitled Task">>,
     description |-> <<>>, priority |-> <<"Medium">>, columnId |-> c,
     labels |-> <<>>]

ColumnsOfProject(p) == SelectSeq(columns, LAMBDA c : c.projectId = p)

\* The partial tasks the task panel passes to updateTask.
TaskUpdates == {[priority |-> <<"Low">>]}

\* prev.map(t => t.id === taskId ? { ...t, ...updates } : t)
UpdatedTasks(ts, taskId, updates) ==
    [i \in 1..Len(ts) |-> IF ts[i].id = taskId THEN Spread(ts[i], updates) ELSE ts[i]]

\* Mutant: a move also resets the task's priority.
MovedTasks_Reset(ts, taskId, newColumnId) ==
    UpdatedTasks(ts, taskId, [columnId |-> newColumnId, priority |-> <<"Medium">>])

\* prev.map(t => t.id === taskId ? { ...t, columnId: newColumnId } : t)
MovedTasks(ts, taskId, newColumnId) ==
    UpdatedTasks(ts, taskId, [columnId |-> newColumnId])

\* Mutant: the filter keeps every task.
WithoutTask_Keeps(ts, taskId) == ts

\* prev.filter(t => t.id !== taskId)
WithoutTask(ts, taskId) == SelectSeq(ts, LAMBDA t : t.id # taskId)

\* Mutant: find returns the first task, whatever its id.
FindTask_First(ts, taskId) == IF ts = <<>> THEN <<>> ELSE <<Head(ts)>>

\* s.find(t => t.id === taskId), as a 0/1-sequence
FindTask(ts, taskId) ==
    LET hits == SelectSeq(ts, LAMBDA t : t.id = taskId)
    IN IF hits = <<>> THEN <<>> ELSE <<Head(hits)>>

\* ---------------------------------------------------------- auto-backup

\* setTimeout(..., 30000), the debounce of the Auto-Backup effect.
BACKUP_DEBOUNCE_MS == 30000

\* if (backupTimeoutRef.current) clearTimeout(backupTimeoutRef.current)
ClearBackupTimeout(armed, ref) ==
    IF ref # <<>> THEN clearTimeout(armed, ref[1]) ELSE armed

\* Mutant: the effect arms its timeout without clearing the one before.
RunAutoBackupEffect_Stacked(enabled) ==
    IF enabled
    THEN LET handle == FreshTimeoutId(backupTimeouts) IN
         /\ backupTimeouts' =
                backupTimeouts \cup {[id |-> handle, due |-> now + BACKUP_DEBOUNCE_MS]}
         /\ backupTimeoutRef' = <<handle>>
         /\ backupLog' = [backupLog EXCEPT !.armedAt = <<now>>]
    ELSE /\ backupTimeouts' = ClearBackupTimeout(backupTimeouts, backupTimeoutRef)
         /\ UNCHANGED <<backupTimeoutRef, backupLog>>

\* The Auto-Backup effect after a render in which one of its dependencies
\* was set, enabled being the isAutoBackupEnabled of that render: the
\* cleanup of the run before (the timeout the ref names is cleared), then
\* the effect, which returns at once when backup is off and else clears the
\* ref's timeout and arms a new one, 30 s from now.
RunAutoBackupEffect(enabled) ==
    LET cleared == ClearBackupTimeout(backupTimeouts, backupTimeoutRef) IN
    IF enabled
    THEN LET handle == FreshTimeoutId(cleared) IN
         /\ backupTimeouts' =
                cleared \cup {[id |-> handle, due |-> now + BACKUP_DEBOUNCE_MS]}
         /\ backupTimeoutRef' = <<handle>>
         /\ backupLog' = [backupLog EXCEPT !.armedAt = <<now>>]
    ELSE /\ backupTimeouts' = cleared
         /\ UNCHANGED <<backupTimeoutRef, backupLog>>

\* The effect after a handler that sets workspaces, projects, tasks,
\* columns, customViews or labels.
AutoBackupEffect ==
    /\ RunAutoBackupEffect(isAutoBackupEnabled)
    /\ UNCHANGED <<isAutoBackupEnabled, backupFile>>

\* Every user action but the dialog's own buttons is behind the dialog's
\* full-screen backdrop while a dialog is open.
NoModal == activeModal = <<>>

\* addTask(task)
AddTask(p, c) ==
    /\ NoModal
    /\ nextTaskNo <= MaxTasks
    /\ tasks' = Append(tasks, NewTask(p, c))
    /\ nextTaskNo' = nextTaskNo + 1
    /\ lastCall' = Call("addTask", TaskId(nextTaskNo), TRUE)
    /\ UNCHANGED <<storeVars, archivedTasks, pendingArchive, activeModal,
                   timeouts, now>>
    /\ AutoBackupEffect

\* updateTask(taskId, updates)
UpdateTask(taskId, updates) ==
    /\ NoModal
    /\ tasks' = UpdatedTasks(tasks, taskId, updates)
    /\ lastCall' = Call("updateTask", taskId, taskId \in LiveIds)
    /\ UNCHANGED <<storeVars, archivedTasks, pendingArchive, activeModal,
                   timeouts, now, nextTaskNo>>
    /\ AutoBackupEffect

\* moveTask(taskId, newColumnId)
MoveTask(taskId, newColumnId) ==
    /\ NoModal
    /\ tasks' = MovedTasks(tasks, taskId, newColumnId)
    /\ lastCall' = Call("moveTask", taskId, taskId \in LiveIds)
    /\ UNCHANGED <<storeVars, archivedTasks, pendingArchive, activeModal,
                   timeouts, now, nextTaskNo>>
    /\ AutoBackupEffect

\* ------------------------------------------------------ archive lifecycle

\* Mutant: a delete leaves the timeout of the task it finds pending armed.
ClearPendingTimeout_Noop(armed, pending) == armed

\* if (pendingArchive) clearTimeout(pendingArchive.timeoutId)
ClearPendingTimeout(armed, pending) ==
    IF pending # <<>> THEN clearTimeout(armed, pending[1].timeoutId) ELSE armed

\* Mutant: the delete drops the task it finds pending instead of archiving it.
FlushPending_Dropped(archived, pending, ms) == archived

\* if (pendingArchive) setArchivedTasks(prev => [...prev, { ...pendingArchive.task, archivedAt }])
FlushPending(archived, pending, ms) ==
    IF pending # <<>> THEN Append(archived, Stamped(pending[1].task, ms))
    ELSE archived

\* Mutant: a delete arms no timeout.
ArmTimeout_Never(armed, task, ms) == armed

\* window.setTimeout(callback, 5000): the callback holds taskToArchive.
ArmTimeout(armed, task, ms) ==
    armed \cup {[id |-> FreshTimeoutId(armed), task |-> task,
                 due |-> ms + ARCHIVE_UNDO_MS]}

\* deleteTask(taskId) as the callback of one render: cTasks and cPending are
\* the tasks and pendingArchive that render closed over.
deleteTask(cTasks, cPending, taskId) ==
    LET taskToArchive == FindTask(cTasks, taskId) IN
    IF taskToArchive = <<>>
    THEN UNCHANGED <<tasks, archivedTasks, pendingArchive, timeouts, backupVars>>
    ELSE LET cleared == ClearPendingTimeout(timeouts, cPending) IN
         /\ AutoBackupEffect
         /\ tasks' = WithoutTask(tasks, taskId)
         /\ archivedTasks' = FlushPending(archivedTasks, cPending, now)
         /\ timeouts' = ArmTimeout(cleared, taskToArchive[1], now)
         /\ pendingArchive' = <<[task |-> taskToArchive[1],
                                 timeoutId |-> FreshTimeoutId(cleared)]>>

\* What the history keeps of a step: the collections before it.
Before ==
    <<[tasks |-> tasks, archivedTasks |-> archivedTasks,
       pendingArchive |-> pendingArchive]>>

DeleteCall(taskId) ==
    [op |-> "deleteTask", id |-> taskId, acted |-> taskId \in LiveIds,
     pre |-> IF taskId \in LiveIds THEN Before ELSE <<>>]

\* The task card's delete button: deleteTask(task.id) of the current render.
DeleteTask(taskId) ==
    /\ NoModal
    /\ now <= MaxNow
    /\ deleteTask(tasks, pendingArchive, taskId)
    /\ lastCall' = DeleteCall(taskId)
    /\ UNCHANGED <<storeVars, activeModal, now, nextTaskNo>>

\* The task panel's delete button: openModal({ onConfirm: () => deleteTask(taskId) }),
\* which keeps the deleteTask of the render the button was clicked in.
OpenDeleteModal(taskId) ==
    /\ NoModal
    /\ taskId \in LiveIds
    /\ activeModal' = <<[taskId |-> taskId, tasks |-> tasks,
                         pendingArchive |-> pendingArchive]>>
    /\ UNCHANGED <<storeVars, tasks, archivedTasks, pendingArchive, timeouts,
                   now, nextTaskNo, lastCall>>
    /\ UNCHANGED backupVars

\* The dialog's confirm button: activeModal.onConfirm(); closeModal()
ConfirmModal ==
    /\ activeModal # <<>>
    /\ now <= MaxNow
    /\ deleteTask(activeModal[1].tasks, activeModal[1].pendingArchive,
                  activeModal[1].taskId)
    /\ lastCall' = DeleteCall(activeModal[1].taskId)
    /\ activeModal' = <<>>
    /\ UNCHANGED <<storeVars, now, nextTaskNo>>

\* The dialog's cancel button, its backdrop, the Escape key: closeModal()
CloseModal ==
    /\ activeModal # <<>>
    /\ activeModal' = <<>>
    /\ UNCHANGED <<storeVars, tasks, archivedTasks, pendingArchive, timeouts,
                   now, nextTaskNo, lastCall>>
    /\ UNCHANGED backupVars

\* The callback of deleteTask's timeout, 5000 ms after it was armed or later.
TimeoutFires(tm) ==
    /\ tm \in timeouts
    /\ now >= tm.due
    /\ archivedTasks' = Append(archivedTasks, Stamped(tm.task, now))
    /\ pendingArchive' = <<>>
    /\ timeouts' = timeouts \ {tm}
    /\ lastCall' = [op |-> "timeout", id |-> tm.task.id, acted |-> TRUE,
                    pre |-> Before]
    /\ UNCHANGED <<storeVars, tasks, activeModal, now, nextTaskNo>>
    /\ UNCHANGED backupVars

\* undoArchiveTask()
UndoArchiveTask ==
    /\ NoModal
    /\ IF pendingArchive = <<>>
       THEN UNCHANGED <<tasks, pendingArchive, timeouts, backupVars>>
       ELSE /\ AutoBackupEffect
            /\ timeouts' = clearTimeout(timeouts, pendingArchive[1].timeoutId)
            /\ tasks' = Append(tasks, pendingArchive[1].task)
            /\ pendingArchive' = <<>>
    /\ lastCall' = [op |-> "undoArchiveTask",
                    id |-> IF pendingArchive = <<>> THEN <<>>
                           ELSE pendingArchive[1].task.id,
                    acted |-> pendingArchive # <<>>,
                    pre |-> IF lastCall.op = "deleteTask" /\ pendingArchive # <<>>
                            THEN lastCall.pre ELSE <<>>]
    /\ UNCHANGED <<storeVars, archivedTasks, activeModal, now, nextTaskNo>>

\* Mutant: the restored task keeps archivedAt.
Restored_Keeps(task) == task

\* const { archivedAt, ...restoredTask } = taskToRestore
Restored(task) == Omit(task, "archivedAt")

\* restoreTask(taskId)
RestoreTask(taskId) ==
    /\ NoModal
    /\ LET taskToRestore == FindTask(archivedTasks, taskId) IN
       IF taskToRestore = <<>>
       THEN UNCHANGED <<tasks, archivedTasks, backupVars>>
       ELSE /\ AutoBackupEffect
            /\ tasks' = Append(tasks, Restored(taskToRestore[1]))
            /\ archivedTasks' = WithoutTask(archivedTasks, taskId)
    /\ lastCall' = [op |-> "restoreTask", id |-> taskId,
                    acted |-> taskId \in ArchivedIds,
                    pre |-> SelectSeq(archivedTasks, LAMBDA t : t.id = taskId)]
    /\ UNCHANGED <<storeVars, pendingArchive, activeModal, timeouts, now,
                   nextTaskNo>>

\* Mutant: permanentlyDeleteTask leaves the archived collection as it is.
PermanentlyDeleteTask_Kept(taskId) ==
    /\ NoModal
    /\ lastCall' = Call("permanentlyDeleteTask", taskId, taskId \in ArchivedIds)
    /\ UNCHANGED <<storeVars, tasks, archivedTasks, pendingArchive, activeModal,
                   timeouts, now, nextTaskNo>>
    /\ UNCHANGED backupVars

\* permanentlyDeleteTask(taskId)
PermanentlyDeleteTask(taskId) ==
    /\ NoModal
    /\ archivedTasks' = WithoutTask(archivedTasks, taskId)
    /\ lastCall' = Call("permanentlyDeleteTask", taskId, taskId \in ArchivedIds)
    /\ UNCHANGED <<storeVars, tasks, pendingArchive, activeModal, timeouts,
                   now, nextTaskNo>>
    /\ UNCHANGED backupVars

\* Time passes.
Tick ==
    /\ now < MaxNow + ARCHIVE_UNDO_MS
    /\ now' = now + TickMs
    /\ UNCHANGED <<storeVars, tasks, archivedTasks, pendingArchive, activeModal,
                   timeouts, nextTaskNo, lastCall>>
    /\ UNCHANGED backupVars

\* ------------------------------------------------------------- navigation

\* The sidebar's project row: setActiveProjectId(project.id); setViewFilter('project')
SelectProject(projectId) ==
    /\ NoModal
    /\ activeProjectId' = projectId
    /\ viewFilter' = PROJECT
    /\ UNCHANGED <<workspaces, projects, columns, tasks, customViews, labels,
                   activeWorkspaceId, searchQuery, priorityFilter,
                   recentViewGlobal, archivedTasks, pendingArchive, activeModal,
                   timeouts, now, nextTaskNo, lastCall>>
    /\ UNCHANGED backupVars

\* The sidebar's Recent row: setViewFilter('recent')
SetViewFilter(vf) ==
    /\ NoModal
    /\ viewFilter' = vf
    /\ UNCHANGED <<workspaces, projects, columns, tasks, customViews, labels,
                   activeWorkspaceId, activeProjectId, searchQuery,
                   priorityFilter, recentViewGlobal, archivedTasks,
                   pendingArchive, activeModal, timeouts, now, nextTaskNo,
                   lastCall>>
    /\ UNCHANGED backupVars

\* --------------------------------------------------------- workspace tree

\* `w${Date.now()}` and `p${Date.now()}`
WorkspaceId(ms) == "w" \o ToString(ms)
ProjectId(ms) == "p" \o ToString(ms)

W_DEFAULT == "w-default"
W_UNKNOWN == "w-none"
P_UNKNOWN == "p-none"

\* generateDefaultColumns(projectId)
generateDefaultColumns(projectId) ==
    << DefaultColumn(projectId, "-todo", TITLE_TODO, "zinc"),
       DefaultColumn(projectId, "-inprogress", <<"In Progress">>, "blue"),
       DefaultColumn(projectId, "-review", <<"Review">>, "amber"),
       DefaultColumn(projectId, "-done", TITLE_DONE, "emerald") >>

\* Mutant: the effect leaves the selection as it finds it.
EnsureActiveProject_Noop(projs, awid, apid, vf) ==
    [activeProjectId |-> apid, viewFilter |-> vf]

\* The effect that keeps activeProjectId valid for the workspace: what it
\* leaves of activeProjectId and viewFilter.
EnsureActiveProject(projs, awid, apid, vf) ==
    LET fp == FilteredProjectsOf(projs, awid) IN
    IF Len(fp) > 0 /\ apid \notin Ids(fp)
    THEN [activeProjectId |-> fp[1].id, viewFilter |-> PROJECT]
    ELSE IF Len(fp) = 0
         THEN [activeProjectId |-> apid, viewFilter |-> MY_TASKS]
         ELSE [activeProjectId |-> apid, viewFilter |-> vf]

\* What no operation of the workspace tree touches.
treeFrame == <<customViews, labels, searchQuery, priorityFilter, recentViewGlobal,
               archivedTasks, pendingArchive, activeModal, timeouts, nextTaskNo>>

\* The history of a deletion in the workspace tree: the operation, the id it
\* was given (as a sequence of tokens), whether the id named an entity, and
\* the selection and the number of live tasks before it.
TreeCall(op, id, acted) ==
    [op |-> op, id |-> id, acted |-> acted,
     pre |-> <<[activeWorkspaceId |-> activeWorkspaceId,
                activeProjectId |-> activeProjectId,
                viewFilter |-> viewFilter, liveTasks |-> Len(tasks)]>>]

\* addWorkspace(name), then the effect
AddWorkspace(name) ==
    /\ NoModal
    /\ now < MaxAdds
    /\ LET newWorkspace == [id |-> WorkspaceId(now), name |-> name]
           defaultProject == [id |-> ProjectId(now), workspaceId |-> newWorkspace.id,
                              name |-> <<"General">>]
           ensured == EnsureActiveProject(Append(projects, defaultProject),
                                          newWorkspace.id, defaultProject.id,
                                          viewFilter)
       IN /\ workspaces' = Append(workspaces, newWorkspace)
          /\ projects' = Append(projects, defaultProject)
          /\ columns' = columns \o generateDefaultColumns(defaultProject.id)
          /\ activeWorkspaceId' = newWorkspace.id
          /\ activeProjectId' = ensured.activeProjectId
          /\ viewFilter' = ensured.viewFilter
    /\ now' = now + 1
    /\ UNCHANGED <<tasks, treeFrame, lastCall>>
    /\ AutoBackupEffect

\* The workspace menu's row: setActiveWorkspaceId(w.id), then the effect
SelectWorkspace(id) ==
    /\ NoModal
    /\ id # activeWorkspaceId
    /\ LET ensured == EnsureActiveProject(projects, id, activeProjectId, viewFilter)
       IN /\ activeWorkspaceId' = id
          /\ activeProjectId' = ensured.activeProjectId
          /\ viewFilter' = ensured.viewFilter
    /\ UNCHANGED <<workspaces, projects, columns, tasks, treeFrame, now, lastCall>>
    /\ UNCHANGED backupVars

\* prev.filter(t => !projectIdsToDelete.has(t.projectId)), of tasks and columns
TasksOutside(ts, projectIds) ==
    SelectSeq(ts, LAMBDA t : t.projectId \notin projectIds)

\* Mutant: the last workspace is deleted and none is made in its place.
WorkspacesAfterDelete_None(ws, awid, id) ==
    SelectSeq(ws, LAMBDA w : w.id # id)

\* The workspaces deleteWorkspace(id) leaves: the others, or the new default
\* workspace when the active and only one is deleted.
WorkspacesAfterDelete(ws, awid, id) ==
    LET remainingWorkspaces == SelectSeq(ws, LAMBDA w : w.id # id) IN
    IF awid = id /\ remainingWorkspaces = <<>>
    THEN <<[id |-> W_DEFAULT, name |-> <<"My Workspace">>]>>
    ELSE remainingWorkspaces

\* The active workspace deleteWorkspace(id) leaves.
ActiveWorkspaceAfterDelete(ws, awid, id) ==
    LET remainingWorkspaces == SelectSeq(ws, LAMBDA w : w.id # id) IN
    IF awid # id THEN awid
    ELSE IF remainingWorkspaces # <<>> THEN remainingWorkspaces[1].id
         ELSE W_DEFAULT

\* deleteWorkspace(id), then the effect
DeleteWorkspace(id) ==
    /\ NoModal
    /\ LET projectIdsToDelete ==
               Ids(SelectSeq(projects, LAMBDA p : p.workspaceId = id))
           projectsLeft == SelectSeq(projects, LAMBDA p : p.workspaceId # id)
           awid == ActiveWorkspaceAfterDelete(workspaces, activeWorkspaceId, id)
           ensured == EnsureActiveProject(projectsLeft, awid, activeProjectId,
                                          viewFilter)
       IN /\ workspaces' = WorkspacesAfterDelete(workspaces, activeWorkspaceId, id)
          /\ projects' = projectsLeft
          /\ tasks' = TasksOutside(tasks, projectIdsToDelete)
          /\ columns' = TasksOutside(columns, projectIdsToDelete)
          /\ activeWorkspaceId' = awid
          /\ activeProjectId' = ensured.activeProjectId
          /\ viewFilter' = ensured.viewFilter
    /\ lastCall' = TreeCall("deleteWorkspace", <<id>>, id \in Ids(workspaces))
    /\ UNCHANGED <<treeFrame, now>>
    /\ AutoBackupEffect

\* addProject(name, icon), then the effect
AddProject(name) ==
    /\ NoModal
    /\ now < MaxAdds
    /\ LET newProject == [id |-> ProjectId(now), workspaceId |-> activeWorkspaceId,
                          name |-> name]
           ensured == EnsureActiveProject(Append(projects, newProject),
                                          activeWorkspaceId, newProject.id, PROJECT)
       IN /\ projects' = Append(projects, newProject)
          /\ columns' = columns \o generateDefaultColumns(newProject.id)
          /\ activeProjectId' = ensured.activeProjectId
          /\ viewFilter' = ensured.viewFilter
    /\ now' = now + 1
    /\ UNCHANGED <<workspaces, tasks, activeWorkspaceId, treeFrame, lastCall>>
    /\ AutoBackupEffect

\* Mutant: the deleted project's tasks are kept.
WithoutProject_Kept(s, id) == s

\* prev.filter(t => t.projectId !== id), of tasks and columns
WithoutProject(s, id) == SelectSeq(s, LAMBDA x : x.projectId # id)

\* The active project and view deleteProject(id) sets, before the effect.
ActiveAfterDeleteProject(projs, awid, apid, vf, id) ==
    LET remaining == SelectSeq(FilteredProjectsOf(projs, awid), LAMBDA p : p.id # id) IN
    IF apid # id THEN [activeProjectId |-> apid, viewFilter |-> vf]
    ELSE IF Len(remaining) > 0
         THEN [activeProjectId |-> remaining[1].id, viewFilter |-> vf]
         ELSE [activeProjectId |-> apid, viewFilter |-> RECENT]

\* deleteProject(id), then the effect
DeleteProject(id) ==
    /\ NoModal
    /\ LET projectsLeft == SelectSeq(projects, LAMBDA p : p.id # id)
           set == ActiveAfterDeleteProject(projects, activeWorkspaceId,
                                           activeProjectId, viewFilter, id)
           ensured == EnsureActiveProject(projectsLeft, activeWorkspaceId,
                                          set.activeProjectId, set.viewFilter)
       IN /\ projects' = projectsLeft
          /\ tasks' = WithoutProject(tasks, id)
          /\ columns' = WithoutProject(columns, id)
          /\ activeProjectId' = ensured.activeProjectId
          /\ viewFilter' = ensured.viewFilter
    /\ lastCall' = TreeCall("deleteProject", <<id>>, id \in Ids(projects))
    /\ UNCHANGED <<workspaces, activeWorkspaceId, treeFrame, now>>
    /\ AutoBackupEffect

\* Mutant: the tasks of the deleted column are moved into the archive.
DeleteColumn_Archiving(id) ==
    /\ NoModal
    /\ columns' = SelectSeq(columns, LAMBDA c : c.id # id)
    /\ tasks' = SelectSeq(tasks, LAMBDA t : t.columnId # id)
    /\ archivedTasks' =
           archivedTasks \o [i \in 1..Len(SelectSeq(tasks, LAMBDA t : t.columnId = id)) |->
                                 Stamped(SelectSeq(tasks, LAMBDA t : t.columnId = id)[i], now)]
    /\ lastCall' = TreeCall("deleteColumn", id, id \in Ids(columns))
    /\ UNCHANGED <<workspaces, projects, activeWorkspaceId, activeProjectId,
                   viewFilter, customViews, labels, searchQuery, priorityFilter,
                   recentViewGlobal, pendingArchive, activeModal, timeouts,
                   nextTaskNo, now>>
    /\ AutoBackupEffect

\* deleteColumn(id)
DeleteColumn(id) ==
    /\ NoModal
    /\ columns' = SelectSeq(columns, LAMBDA c : c.id # id)
    /\ tasks' = SelectSeq(tasks, LAMBDA t : t.columnId # id)
    /\ lastCall' = TreeCall("deleteColumn", id, id \in Ids(columns))
    /\ UNCHANGED <<workspaces, projects, activeWorkspaceId, activeProjectId,
                   viewFilter, treeFrame, now>>
    /\ AutoBackupEffect

\* --------------------------------------------------- drag-drop reconciler

\* Mutant: the column is looked up by title alone.
ColumnByTitle_AnyProject(cols, projectId, title) ==
    LET hits == SelectSeq(cols, LAMBDA c : c.title = title)
    IN IF hits = <<>> THEN <<>> ELSE <<Head(hits)>>

\* columns.find(c => c.projectId === projectId && c.title === title)
ColumnByTitle(cols, projectId, title) ==
    LET hits == SelectSeq(cols, LAMBDA c : c.projectId = projectId /\ c.title = title)
    IN IF hits = <<>> THEN <<>> ELSE <<Head(hits)>>

\* columns.find(c => c.id === columnId)
ColumnById(cols, columnId) ==
    LET hits == SelectSeq(cols, LAMBDA c : c.id = columnId)
    IN IF hits = <<>> THEN <<>> ELSE <<Head(hits)>>

\* Mutant: with no column of that title, the drop falls back to the first
\* column of the task's project.
VirtualDropTarget_Fallback(cols, task, overId) ==
    LET own == SelectSeq(cols, LAMBDA c : c.projectId = task.projectId)
    IN IF own = <<>> THEN <<>> ELSE <<Head(own).id>>

\* SCENARIO 1 of handleDragEnd: the target of a drop on a virtual column.
VirtualDropTarget(cols, task, overId) ==
    LET targetTitle == replaceFirst(overId, VIRTUAL)
        targetColumn == ColumnByTitle(cols, task.projectId, targetTitle)
    IN IF targetColumn # <<>> THEN <<targetColumn[1].id>> ELSE <<>>

\* SCENARIO 2 of handleDragEnd: the target of a drop on a real column.
ColumnDropTarget(cols, task, overId) == <<overId>>

\* SCENARIO 3 of handleDragEnd: the target of a drop on another task.
TaskDropTarget(cols, visible, task, overId) ==
    LET overTask == FindTask(visible, overId) IN
    IF overTask = <<>> THEN <<>>
    ELSE LET overTaskColumn == ColumnById(cols, overTask[1].columnId) IN
         IF overTaskColumn = <<>> THEN <<>>
         ELSE LET targetColumn ==
                      ColumnByTitle(cols, task.projectId, overTaskColumn[1].title)
              IN IF targetColumn # <<>> THEN <<targetColumn[1].id>> ELSE <<>>

\* The column id handleDragEnd passes to moveTask, as a 0/1-sequence: empty
\* when it returns without a move.  over is the event's over (null is <<>>).
DragEndTarget(ts, cols, visible, activeId, over) ==
    LET task == FindTask(ts, activeId) IN
    IF over = <<>> \/ task = <<>> THEN <<>>
    ELSE IF startsWith(over[1], VIRTUAL)
         THEN VirtualDropTarget(cols, task[1], over[1])
         ELSE IF \E i \in 1..Len(cols) : cols[i].id = over[1]
              THEN ColumnDropTarget(cols, task[1], over[1])
              ELSE TaskDropTarget(cols, visible, task[1], over[1])

\* The ids a drag can end over: the columns, the virtual columns of their
\* titles, the task cards, and an id that names nothing.
DropTargets ==
    Ids(columns) \cup {VirtualId(columns[i].title) : i \in 1..Len(columns)}
        \cup TaskIdInputs

\* handleDragEnd(event)
DragEnd(activeId, over) ==
    /\ NoModal
    /\ LET target == DragEndTarget(tasks, columns, filteredTasks, activeId, over) IN
       /\ IF target = <<>> THEN UNCHANGED <<tasks, backupVars>>
          ELSE /\ tasks' = MovedTasks(tasks, activeId, target[1])
               /\ AutoBackupEffect
       /\ lastCall' = [op |-> "dragEnd", id |-> activeId, acted |-> target # <<>>,
                       pre |-> over]
    /\ UNCHANGED <<storeVars, archivedTasks, pendingArchive, activeModal,
                   timeouts, now, nextTaskNo>>

\* ----------------------------------------------------------- specification

\* The archive lifecycle: the board's add button in the project view,
\* the task panel's edits, the delete paths, undo, restore, permanent delete,
\* the timeout and time.
Next ==
    \/ \E c \in Ids(ColumnsOfProject(activeProjectId)) : AddTask(activeProjectId, c)
    \/ \E id \in TaskIdInputs : \E u \in TaskUpdates : UpdateTask(id, u)
    \/ \E id \in TaskIdInputs : DeleteTask(id)
    \/ \E id \in LiveIds : OpenDeleteModal(id)
    \/ ConfirmModal
    \/ CloseModal
    \/ \E tm \in timeouts : TimeoutFires(tm)
    \/ UndoArchiveTask
    \/ \E id \in TaskIdInputs : RestoreTask(id)
    \/ \E id \in TaskIdInputs : PermanentlyDeleteTask(id)
    \/ Tick

Spec == Init /\ [][Next]_vars

\* The event loop runs a due timeout's callback, and time passes.
LiveSpec ==
    /\ Spec
    /\ WF_vars(Tick)
    /\ WF_vars(\E tm \in timeouts : TimeoutFires(tm))

\* The board: the sidebar's project rows, the add button of the project
\* view, moveTask, handleDragEnd, and deleteTask, undoArchiveTask and
\* restoreTask with no time passing.
BoardNext ==
    \/ \E p \in Ids(filteredProjects) : SelectProject(p)
    \/ \E c \in Ids(ColumnsOfProject(activeProjectId)) : AddTask(activeProjectId, c)
    \/ \E id \in TaskIdInputs : \E c \in Ids(columns) : MoveTask(id, c)
    \/ \E id \in TaskIdInputs : \E over \in {<<>>} \cup {<<d>> : d \in DropTargets} :
           DragEnd(id, over)
    \/ \E id \in TaskIdInputs : DeleteTask(id)
    \/ UndoArchiveTask
    \/ \E id \in TaskIdInputs : RestoreTask(id)

BoardSpec == Init /\ [][BoardNext]_vars

\* The ends a drag can have: over nothing, or over one of the drop targets.
DragOvers == {<<>>} \cup {<<d>> : d \in DropTargets}

\* Moves alone: the sidebar's project rows, the add button, moveTask and
\* handleDragEnd.
DragNext ==
    \/ \E p \in Ids(filteredProjects) : SelectProject(p)
    \/ \E c \in Ids(ColumnsOfProject(activeProjectId)) : AddTask(activeProjectId, c)
    \/ \E id \in TaskIdInputs : \E c \in Ids(columns) : MoveTask(id, c)
    \/ \E id \in TaskIdInputs : \E over \in DragOvers : DragEnd(id, over)

DragSpec == Init /\ [][DragNext]_vars

\* The board's own columns: those of the active project, in the project view.
BoardColumns ==
    IF viewFilter = PROJECT /\ activeProject # <<>>
    THEN Ids(ColumnsOfProject(activeProjectId)) ELSE {}

\* The workspace tree: workspaces and projects made and deleted, the
\* sidebar's selections, and moveTask of a live task to any column.
TreeNext ==
    \/ AddWorkspace(<<"N">>)
    \/ \E w \in Ids(workspaces) : SelectWorkspace(w)
    \/ \E w \in Ids(workspaces) \cup {W_UNKNOWN} : DeleteWorkspace(w)
    \/ AddProject(<<"N">>)
    \/ \E p \in Ids(filteredProjects) : SelectProject(p)
    \/ \E p \in Ids(projects) \cup {P_UNKNOWN} : DeleteProject(p)
    \/ SetViewFilter(RECENT)
    \/ \E id \in LiveIds : \E c \in Ids(columns) : MoveTask(id, c)

TreeSpec == Init /\ [][TreeNext]_vars

\* The cascades below a workspace: projects and columns deleted, tasks added
\* on the board and moved by moveTask to any column.
CascadeNext ==
    \/ \E p \in Ids(filteredProjects) : SelectProject(p)
    \/ \E p \in Ids(projects) \cup {P_UNKNOWN} : DeleteProject(p)
    \/ \E c \in Ids(columns) \cup {UNKNOWN_ID} : DeleteColumn(c)
    \/ \E c \in BoardColumns : AddTask(activeProjectId, c)
    \/ \E id \in LiveIds : \E c \in Ids(columns) : MoveTask(id, c)

CascadeSpec == Init /\ [][CascadeNext]_vars

\* ----------------------------------------------------------------- claims

HasArchivedAt(t) == "archivedAt" \in DOMAIN t

\* The last call was a deleteTask of a live task made while another task was
\* in the pending slot.
SecondDelete ==
    /\ lastCall.op = "deleteTask"
    /\ lastCall.acted
    /\ lastCall.pre[1].pendingArchive # <<>>

\* C1 (archive single-slot): right after a deleteTask(B) made while A was
\* still in the pending slot (A's timeout not fired, no undo), A is in the
\* archived collection carrying archivedAt, B is the sole content of the
\* pending slot, and neither A nor B is live.
C1_ArchiveSingleSlot ==
    SecondDelete =>
        LET A == lastCall.pre[1].pendingArchive[1].task
            B == lastCall.id
        IN /\ \E i \in 1..Len(archivedTasks) :
                  /\ HasArchivedAt(archivedTasks[i])
                  /\ Omit(archivedTasks[i], "archivedAt") = A
           /\ Len(pendingArchive) = 1
           /\ pendingArchive[1].task.id = B
           /\ A.id # B
           /\ A.id \notin LiveIds
           /\ B \notin LiveIds

C1_Witness ==
    /\ SecondDelete
    /\ lastCall.pre[1].pendingArchive[1].task.id \in ArchivedIds
    /\ PendingIds = {lastCall.id}

\* The last call was an undoArchiveTask that found a task in the slot, made
\* right after the deleteTask that put it there (time may have passed, the
\* timeout has not fired).
UndoAfterDelete ==
    /\ lastCall.op = "undoArchiveTask"
    /\ lastCall.acted
    /\ lastCall.pre # <<>>

\* The task lastCall.id as it was in the live collection before the delete.
DeletedTask == FindTask(lastCall.pre[1].tasks, lastCall.id)[1]

\* What deleteTask(t), undoArchiveTask() do to t, the slot and the timeout.
UndoRestoresTask ==
    /\ \E i \in 1..Len(tasks) : tasks[i] = DeletedTask
    /\ \A i \in 1..Len(tasks) : tasks[i].id = lastCall.id => ~HasArchivedAt(tasks[i])
    /\ pendingArchive = <<>>
    /\ \A tm \in timeouts : tm.task.id # lastCall.id

\* C2 as stated (undo restores exactly): after deleteTask(t), undoArchiveTask()
\* the task t is live with every field as before the delete and no archivedAt,
\* the slot is empty, t's timeout is cancelled, and the archived collection is
\* as it was before the delete.
C2_UndoRestoresExactly_AsStated ==
    UndoAfterDelete =>
        /\ UndoRestoresTask
        /\ archivedTasks = lastCall.pre[1].archivedTasks

\* C2 (undo restores exactly), amended: after deleteTask(t), undoArchiveTask()
\* the task t is live with every field as before the delete and no archivedAt,
\* the slot is empty and t's timeout is cancelled; the archived collection
\* keeps every entry it had before the delete, in place, and has gained at most
\* one entry, which carries archivedAt and is not t: the task the delete found
\* in the slot, whenever the slot was occupied.
C2_UndoRestoresExactly ==
    UndoAfterDelete =>
        LET pre == lastCall.pre[1]
            n == Len(pre.archivedTasks)
        IN /\ UndoRestoresTask
           /\ Len(archivedTasks) \in {n, n + 1}
           /\ SubSeq(archivedTasks, 1, n) = pre.archivedTasks
           /\ Len(archivedTasks) = n + 1 =>
                  /\ HasArchivedAt(archivedTasks[n + 1])
                  /\ archivedTasks[n + 1].id # lastCall.id
           /\ pre.pendingArchive # <<>> =>
                  /\ Len(archivedTasks) = n + 1
                  /\ Omit(archivedTasks[n + 1], "archivedAt") = pre.pendingArchive[1].task

\* An undo of a delete that had flushed another task into the archive.
C2_Witness ==
    /\ UndoAfterDelete
    /\ lastCall.id \in LiveIds
    /\ Len(archivedTasks) = Len(lastCall.pre[1].archivedTasks) + 1

\* The last call was the callback of a timeout.
TimeoutFired == lastCall.op = "timeout"

\* The task ids of the bounded session.
AllTaskIds == {TaskId(n) : n \in 1..MaxTasks}

\* C3 (timer expiry): when the timeout fires, the task in the slot is appended
\* to the archived collection with archivedAt and the slot becomes empty; a
\* task that leaves the slot goes to the archived or to the live collection;
\* and every task in the slot eventually leaves it.
C3_TimerExpiry ==
    /\ [](TimeoutFired =>
            LET pre == lastCall.pre[1]
                n == Len(pre.archivedTasks)
            IN /\ Len(pre.pendingArchive) = 1
               /\ pre.pendingArchive[1].task.id = lastCall.id
               /\ Len(archivedTasks) >= n + 1
               /\ SubSeq(archivedTasks, 1, n) = pre.archivedTasks
               /\ HasArchivedAt(archivedTasks[n + 1])
               /\ Omit(archivedTasks[n + 1], "archivedAt") = pre.pendingArchive[1].task)
    /\ [][TimeoutFired' /\ lastCall' # lastCall =>
              /\ pendingArchive' = <<>>
              /\ Len(archivedTasks') = Len(archivedTasks) + 1]_vars
    /\ [][\A id \in PendingIds :
              id \notin PendingIds' => id \in ArchivedIds' \cup LiveIds']_vars
    /\ \A id \in AllTaskIds :
           (id \in PendingIds) ~> (id \notin PendingIds)

\* The timeout has fired and its task is archived, the slot empty.
C3_Witness ==
    /\ TimeoutFired
    /\ lastCall.id \in ArchivedIds
    /\ pendingArchive = <<>>
    /\ now >= ARCHIVE_UNDO_MS

\* C4 (one timer): at most one timeout is armed, a timeout is armed exactly
\* when the slot is occupied, and it is the timeout whose handle the slot
\* holds and whose callback archives the slot's task.
C4_OneTimer ==
    /\ Cardinality(timeouts) <= 1
    /\ timeouts # {} <=> pendingArchive # <<>>
    /\ \A tm \in timeouts :
           pendingArchive = <<[task |-> tm.task, timeoutId |-> tm.id]>>

\* A second delete has replaced the first delete's timeout by its own.
C4_Witness ==
    /\ SecondDelete
    /\ Cardinality(timeouts) = 1
    /\ \A tm \in timeouts : tm.task.id = lastCall.id

\* Saved views to look through: a priority view across all workspaces and a
\* label view of the active workspace.
SavedViews ==
    << [id |-> <<"v1">>, filterType |-> "priority", allWorkspaces |-> TRUE,
        filterValue |-> [isArray |-> FALSE, value |-> <<"High">>]],
       [id |-> <<"v2">>, filterType |-> "label", allWorkspaces |-> FALSE,
        filterValue |-> [isArray |-> TRUE, value |-> << <<"bug">> >>]] >>

\* The view selections: the view, the active project, the search box, the
\* priority dropdown and the scope of the recent view.
ViewSelections ==
    [vf : {PROJECT, RECENT, <<"v1">>, <<"v2">>}, apid : {"p1", "p2"},
     q : {<<>>, <<"t">>}, pf : {<<>>, <<"High">>}, rvg : BOOLEAN]

\* filteredTasks of the task collection ts under the view selection v.
VisibleTasks(ts, v) ==
    FilteredTasksOf(ts, projects, SavedViews, activeWorkspaceId, v.apid, v.vf,
                    v.q, v.pf, v.rvg)

\* The last call was a deleteTask of a live task.
DeleteActed == lastCall.op = "deleteTask" /\ lastCall.acted

\* C5 (delete hides the task): right after deleteTask(t) of a live task, t is
\* not in the live collection and is the content of the pending slot, with
\* the fields it had; and a task in the pending slot is in the visible tasks
\* of no view selection.
C5_DeleteHidesTask ==
    /\ DeleteActed =>
           /\ lastCall.id \notin LiveIds
           /\ Len(pendingArchive) = 1
           /\ pendingArchive[1].task = DeletedTask
    /\ \A id \in PendingIds : \A v \in ViewSelections :
           id \notin Ids(VisibleTasks(tasks, v))

\* A task that was visible in some view has been deleted and is pending.
C5_Witness ==
    /\ DeleteActed
    /\ lastCall.id \in PendingIds
    /\ \E v \in ViewSelections :
           lastCall.id \in Ids(VisibleTasks(lastCall.pre[1].tasks, v))

\* The last call was a restoreTask of an archived task.
RestoreActed == lastCall.op = "restoreTask" /\ lastCall.acted

\* C6 (restore): right after restoreTask(t) of an archived task, no entry of
\* t is in the archived collection, and the live collection holds a task
\* equal to the archived one in every field but archivedAt, which it lacks.
C6_RestoreTask ==
    RestoreActed =>
        /\ lastCall.id \notin ArchivedIds
        /\ HasArchivedAt(lastCall.pre[1])
        /\ \E i \in 1..Len(tasks) :
               /\ ~HasArchivedAt(tasks[i])
               /\ DOMAIN tasks[i] = DOMAIN lastCall.pre[1] \ {"archivedAt"}
               /\ \A f \in DOMAIN tasks[i] : tasks[i][f] = lastCall.pre[1][f]

\* An archived task has been restored and is live.
C6_Witness ==
    /\ RestoreActed
    /\ lastCall.id \in LiveIds
    /\ lastCall.id \notin ArchivedIds

\* The task id is in none of the three collections.
Gone(id) == id \notin LiveIds \cup PendingIds \cup ArchivedIds

\* The last call was a permanentlyDeleteTask of an archived task.
PermanentDeleteActed == lastCall.op = "permanentlyDeleteTask" /\ lastCall.acted

\* C7 (permanent delete): right after permanentlyDeleteTask(t) of an archived
\* task, t is in none of the live, pending and archived collections; and no
\* step (undo, restore, timeout or any other) brings back a task that was
\* handed out and is in none of them.
C7_PermanentDelete ==
    /\ [](PermanentDeleteActed => Gone(lastCall.id))
    /\ [][\A id \in IssuedIds : Gone(id) => Gone(id)']_vars

\* A task has been permanently deleted, and a restore of it came to nothing.
C7_Witness ==
    /\ lastCall.op = "restoreTask"
    /\ ~lastCall.acted
    /\ lastCall.id \in IssuedIds
    /\ Gone(lastCall.id)

\* A step that is an archive operation on a task not in the state the
\* operation expects.
UnexpectedStateCall ==
    \/ UndoArchiveTask /\ pendingArchive = <<>>
    \/ \E id \in TaskIdInputs : RestoreTask(id) /\ id \notin ArchivedIds
    \/ \E id \in TaskIdInputs : PermanentlyDeleteTask(id) /\ id \notin ArchivedIds
    \/ \E id \in TaskIdInputs : DeleteTask(id) /\ id \notin LiveIds
    \/ ConfirmModal /\ activeModal[1].taskId \notin LiveIds

\* C8 (silent no-ops): undoArchiveTask with an empty slot, restoreTask and
\* permanentlyDeleteTask of an id that is not archived, and deleteTask of an
\* id that is not live leave the live, pending and archived collections and
\* the timeouts unchanged.
C8_SilentNoOps ==
    [][UnexpectedStateCall =>
           UNCHANGED <<tasks, pendingArchive, archivedTasks, timeouts>>]_vars

\* A restoreTask of the pending task came to nothing while the archived
\* collection, the slot and the timeout were in use.
C8_Witness ==
    /\ lastCall.op = "restoreTask"
    /\ ~lastCall.acted
    /\ lastCall.id \in PendingIds
    /\ archivedTasks # <<>>
    /\ timeouts # {}

\* The task's columnId names a column of the task's project.
InOwnProject(t) ==
    \E j \in 1..Len(columns) :
        columns[j].id = t.columnId /\ columns[j].projectId = t.projectId

\* C9 (task/column/project consistency): in every state reached through
\* addTask, moveTask, deleteTask, undoArchiveTask, restoreTask, the drag-end
\* handler and the choice of the project shown, every live task's columnId names a column whose projectId is the
\* task's projectId.
C9_TaskColumnProject ==
    \A i \in 1..Len(tasks) : InOwnProject(tasks[i])

\* C10 (drag stays in the project): right after a drag-end event that moved
\* the dragged task, whatever it was dropped on, the column the task is in
\* belongs to the task's project.
C10_DragStaysInProject ==
    (lastCall.op = "dragEnd" /\ lastCall.acted) =>
        \A i \in 1..Len(tasks) :
            tasks[i].id = lastCall.id => InOwnProject(tasks[i])

\* The columns of project p whose title is title.
OwnColumnsTitled(p, title) ==
    {columns[j].id : j \in {k \in 1..Len(columns) :
                              columns[k].projectId = p /\ columns[k].title = title}}

\* The titles of all columns.
ColumnTitles == {columns[j].title : j \in 1..Len(columns)}

\* C11 (drag onto a virtual column): a drag-end of a live task of project A
\* over `virtual-<title>`, when A has a column of that title, leaves the task
\* in a column of A with exactly that title, whatever other projects have a
\* column of the same title.
C11_VirtualColumnDrop ==
    [][\A id \in LiveIds : \A title \in ColumnTitles :
           DragEnd(id, <<VirtualId(title)>>) =>
               \A i \in 1..Len(tasks) :
                   (tasks[i].id = id
                    /\ OwnColumnsTitled(tasks[i].projectId, title) # {}) =>
                       /\ tasks'[i].projectId = tasks[i].projectId
                       /\ tasks'[i].columnId \in
                              OwnColumnsTitled(tasks[i].projectId, title)]_vars

\* A task of p2 was dropped on virtual-To Do and is in p2's To Do, not in
\* p1's, which comes first among the columns.
C11_Witness ==
    /\ lastCall.op = "dragEnd"
    /\ lastCall.acted
    /\ lastCall.pre = <<VirtualId(TITLE_TODO)>>
    /\ \E i \in 1..Len(tasks) :
           /\ tasks[i].id = lastCall.id
           /\ tasks[i].projectId = "p2"
           /\ tasks[i].columnId = <<"col-", "p2", "-todo">>
    /\ columns[1].title = TITLE_TODO /\ columns[1].projectId = "p1"

\* The drops that the handler has no target for: an unknown dragged task, a
\* virtual column whose title no column of the task's project has, or an id
\* that is no virtual column, no column and no visible task.
NoDropTarget(id, overId) ==
    \/ id \notin LiveIds
    \/ /\ Head(overId) = VIRTUAL
       /\ \A i \in 1..Len(tasks) :
              tasks[i].id = id =>
                  OwnColumnsTitled(tasks[i].projectId, Tail(overId)) = {}
    \/ /\ Head(overId) # VIRTUAL
       /\ overId \notin Ids(columns)
       /\ overId \notin Ids(filteredTasks)

\* C12 (drag no-ops): a drag-end with nothing under it, or one the handler has
\* no target for, changes no task, no column and no other collection of the
\* store.
C12_DragNoOps ==
    [][\A id \in TaskIdInputs :
           /\ DragEnd(id, <<>>) => UNCHANGED <<tasks, storeVars, archivedTasks,
                                               pendingArchive>>
           /\ \A overId \in DropTargets :
                  (DragEnd(id, <<overId>>) /\ NoDropTarget(id, overId)) =>
                      UNCHANGED <<tasks, storeVars, archivedTasks,
                                  pendingArchive>>]_vars

\* A task of p2 was dropped on virtual-Done, a title p2 has no column of, and
\* nothing was moved.
C12_Witness ==
    /\ lastCall.op = "dragEnd"
    /\ ~lastCall.acted
    /\ lastCall.pre = <<VirtualId(TITLE_DONE)>>
    /\ \E i \in 1..Len(tasks) :
           tasks[i].id = lastCall.id /\ tasks[i].projectId = "p2"

\* Between two task collections only the columnId of the tasks of that id
\* differs.
OnlyColumnIdChanged(before, after, id) ==
    /\ Len(after) = Len(before)
    /\ \A i \in 1..Len(before) :
           IF before[i].id = id
           THEN Omit(after[i], "columnId") = Omit(before[i], "columnId")
           ELSE after[i] = before[i]

\* C13 (a move is a single field update): moveTask(t, c) and every drag-end
\* change nothing but the columnId of task t: its other fields, the other
\* tasks, and the column, project, workspace, archive and pending collections
\* stay as they were.
C13_MoveSingleField ==
    [][\A id \in TaskIdInputs :
           (\/ \E c \in Ids(columns) : MoveTask(id, c)
            \/ \E over \in DragOvers : DragEnd(id, over)) =>
               /\ OnlyColumnIdChanged(tasks, tasks', id)
               /\ UNCHANGED <<storeVars, archivedTasks, pendingArchive>>]_vars

\* moveTask has moved the seed task, which is not of the default priority,
\* to another column while a second task is live.
C13_Witness ==
    /\ lastCall.op = "moveTask"
    /\ lastCall.acted
    /\ Len(tasks) = 2
    /\ \E i \in 1..Len(tasks) :
           /\ tasks[i].id = lastCall.id
           /\ tasks[i].priority = <<"High">>
           /\ tasks[i].columnId = <<"col-", "p1", "-done">>

\* The ids of the projects under workspace w, and of the columns of the
\* projects ps.
ProjectsUnder(w) ==
    {projects[i].id : i \in {k \in 1..Len(projects) : projects[k].workspaceId = w}}

ColumnsUnder(ps) ==
    {columns[i].id : i \in {k \in 1..Len(columns) : columns[k].projectId \in ps}}

\* C14 (cascade completeness for workspaces): a deleteWorkspace(W) step leaves
\* no project with workspaceId W, no column of a project that was under W, and
\* no live task of a project or in a column that was under W.
C14_WorkspaceCascade ==
    [][\A W \in Ids(workspaces) :
           DeleteWorkspace(W) =>
               /\ \A i \in 1..Len(projects') : projects'[i].workspaceId # W
               /\ \A i \in 1..Len(columns') :
                      columns'[i].projectId \notin ProjectsUnder(W)
               /\ \A i \in 1..Len(tasks') :
                      /\ tasks'[i].projectId \notin ProjectsUnder(W)
                      /\ tasks'[i].columnId \notin ColumnsUnder(ProjectsUnder(W))]_vars

\* C15 (last workspace): in every state at least one workspace exists, and a
\* deleteWorkspace of the only workspace leaves exactly one workspace.
C15_LastWorkspace ==
    /\ [](Len(workspaces) >= 1)
    /\ [][\A W \in Ids(workspaces) :
              (DeleteWorkspace(W) /\ Ids(workspaces) = {W}) =>
                  Len(workspaces') = 1]_vars

\* The only workspace was deleted and the default one stands in its place.
C15_Witness ==
    /\ lastCall.op = "deleteWorkspace"
    /\ lastCall.acted
    /\ lastCall.id = <<"w1">>
    /\ Ids(workspaces) = {W_DEFAULT}
    /\ activeWorkspaceId = W_DEFAULT

\* The entries of a collection that are not of project p.
NotOfProject(coll, p) == SelectSeq(coll, LAMBDA x : x.projectId # p)

\* C16 (project and column cascades): a deleteProject(P) step leaves no
\* column and no live task with projectId P, and keeps every other project,
\* column and task as it was, in order; a deleteColumn(C) step leaves no live
\* task with columnId C, and keeps every other column and task, and all
\* projects, as they were.
C16_ProjectColumnCascade ==
    [][/\ \A P \in Ids(projects) \cup {P_UNKNOWN} :
              DeleteProject(P) =>
                  /\ \A i \in 1..Len(columns') : columns'[i].projectId # P
                  /\ \A i \in 1..Len(tasks') : tasks'[i].projectId # P
                  /\ projects' = SelectSeq(projects, LAMBDA p : p.id # P)
                  /\ columns' = NotOfProject(columns, P)
                  /\ tasks' = NotOfProject(tasks, P)
                  /\ workspaces' = workspaces
       /\ \A C \in Ids(columns) \cup {UNKNOWN_ID} :
              DeleteColumn(C) =>
                  /\ \A i \in 1..Len(tasks') : tasks'[i].columnId # C
                  /\ tasks' = SelectSeq(tasks, LAMBDA t : t.columnId # C)
                  /\ columns' = SelectSeq(columns, LAMBDA c : c.id # C)
                  /\ projects' = projects
                  /\ workspaces' = workspaces]_vars

\* A project was deleted with a live task of its own, while a task of
\* another project stays live.
C16_Witness ==
    /\ lastCall.op = "deleteProject"
    /\ lastCall.acted
    /\ lastCall.pre[1].liveTasks = 2
    /\ Len(tasks) = 1
    /\ Len(projects) = 1
    /\ columns # <<>>

\* The first project of workspace w other than p, as a 0/1-sequence.
FirstSibling(w, p) ==
    LET siblings == SelectSeq(projects, LAMBDA q : q.workspaceId = w /\ q.id # p)
    IN IF siblings = <<>> THEN <<>> ELSE <<Head(siblings).id>>

\* C17 (active selection after deletion): a deleteProject step on the active
\* project makes the first remaining project of its workspace the active one
\* if one remains, and otherwise leaves a view other than 'project'; a
\* deleteWorkspace step on the active workspace leaves activeWorkspaceId
\* naming an existing workspace; and after either deletion, of any id, the
\* active workspace exists and, in the 'project' view, the active project
\* exists in it.
C17_ActiveSelection ==
    [][/\ \A P \in Ids(projects) :
              (DeleteProject(P) /\ activeProject # <<>> /\ activeProjectId = P) =>
                  IF FirstSibling(activeProject[1].workspaceId, P) # <<>>
                  THEN activeProjectId' =
                           FirstSibling(activeProject[1].workspaceId, P)[1]
                  ELSE viewFilter' # PROJECT
       /\ \A W \in Ids(workspaces) :
              (DeleteWorkspace(W) /\ activeWorkspaceId = W) =>
                  activeWorkspaceId' \in Ids(workspaces')
       /\ ((\E P \in Ids(projects) \cup {P_UNKNOWN} : DeleteProject(P))
           \/ (\E W \in Ids(workspaces) \cup {W_UNKNOWN} : DeleteWorkspace(W))) =>
              /\ activeWorkspaceId' \in Ids(workspaces')
              /\ viewFilter' = PROJECT =>
                     \E i \in 1..Len(projects') :
                         /\ projects'[i].id = activeProjectId'
                         /\ projects'[i].workspaceId = activeWorkspaceId']_vars

\* The active project p1 was deleted in the project view and its sibling p2
\* is the active project.
C17_Witness ==
    /\ lastCall.op = "deleteProject"
    /\ lastCall.acted
    /\ lastCall.id = <<"p1">>
    /\ lastCall.pre[1].activeProjectId = "p1"
    /\ lastCall.pre[1].viewFilter = PROJECT
    /\ activeProjectId = "p2"
    /\ viewFilter = PROJECT

\* ------------------------------------------------- view resolver session

\* `view-${Date.now()}`
ViewId(ms) == <<"view-", ToString(ms)>>

\* The saved custom views the session of the view resolver starts from, as
\* addCustomView makes them: a priority view, a label view of one label and
\* a label view of two labels.
SAVED_VIEWS ==
    << [id |-> ViewId(1), name |-> <<"Urgent">>, filterType |-> "priority",
        filterValue |-> [isArray |-> FALSE, value |-> <<"High">>],
        allWorkspaces |-> FALSE, icon |-> "Flag"],
       [id |-> ViewId(2), name |-> <<"Bugs">>, filterType |-> "label",
        filterValue |-> [isArray |-> FALSE, value |-> <<"B">>],
        allWorkspaces |-> FALSE, icon |-> "Tag"],
       [id |-> ViewId(3), name |-> <<"Mixed">>, filterType |-> "label",
        filterValue |-> [isArray |-> TRUE, value |-> << <<"a">>, <<"D">> >>],
        allWorkspaces |-> FALSE, icon |-> "Tag"] >>

\* The second workspace of the saved data and its default project, as
\* addWorkspace made them.
SAVED_WORKSPACE == [id |-> WorkspaceId(7), name |-> <<"N">>]
SAVED_PROJECT ==
    [id |-> ProjectId(7), workspaceId |-> WorkspaceId(7), name |-> <<"General">>]

\* The texts, priorities and label lists of the second saved task.
SavedTexts ==
    { [title |-> <<"t", "b">>, description |-> <<>>],
      [title |-> <<"x">>, description |-> <<"D", "t">>],
      [title |-> <<"x">>, description |-> <<"y">>] }

SavedPriorities == { <<"High">>, <<"Low">> }

SavedLabels ==
    { <<>>, << <<"b">> >>, << <<"x">>, <<"A">> >>, << <<"d">>, <<"B">> >> }

\* The second saved task: any project, in that project's To Do column.
SavedTasks ==
    { [id |-> TaskId(2), projectId |-> pid, title |-> txt.title,
       description |-> txt.description, priority |-> pr,
       columnId |-> <<"col-", pid, "-todo">>, labels |-> ls] :
          pid \in {"p1", "p2", ProjectId(7)}, txt \in SavedTexts,
          pr \in SavedPriorities, ls \in SavedLabels }

\* What the search box and the priority dropdown are given.
SearchInputs == { <<>>, <<"T">>, <<"d">> }
PriorityInputs == { <<>>, <<"High">> }

\* The state after construction from saved data of two workspaces.
ViewInit ==
    /\ workspaces = Append(INITIAL_WORKSPACES, SAVED_WORKSPACE)
    /\ projects = Append(INITIAL_PROJECTS, SAVED_PROJECT)
    /\ columns = INITIAL_COLUMNS \o generateDefaultColumns(SAVED_PROJECT.id)
    /\ tasks \in {Append(INITIAL_TASKS, t) : t \in SavedTasks}
    /\ customViews = SAVED_VIEWS
    /\ labels = <<>>
    /\ activeWorkspaceId = "w1"
    /\ activeProjectId = "p1"
    /\ viewFilter = PROJECT
    /\ searchQuery = <<>>
    /\ priorityFilter = <<>>
    /\ recentViewGlobal = FALSE
    /\ archivedTasks = <<>>
    /\ pendingArchive = <<>>
    /\ activeModal = <<>>
    /\ timeouts = {}
    /\ now = 0
    /\ nextTaskNo = 3
    /\ lastCall = NoCall
    /\ isAutoBackupEnabled = FALSE
    /\ backupTimeoutRef = <<>>
    /\ backupTimeouts = {}
    /\ backupLog = NoBackups
    /\ backupFile = <<>>

\* The board's search box: setSearchQuery(e.target.value)
SetSearchQuery(query) ==
    /\ NoModal
    /\ searchQuery' = query
    /\ UNCHANGED <<workspaces, projects, columns, tasks, customViews, labels,
                   activeWorkspaceId, activeProjectId, viewFilter,
                   priorityFilter, recentViewGlobal, archivedTasks,
                   pendingArchive, activeModal, timeouts, now, nextTaskNo,
                   lastCall>>
    /\ UNCHANGED backupVars

\* The board's priority dropdown: setPriorityFilter(null) or setPriorityFilter(p)
SetPriorityFilter(priority) ==
    /\ NoModal
    /\ priorityFilter' = priority
    /\ UNCHANGED <<workspaces, projects, columns, tasks, customViews, labels,
                   activeWorkspaceId, activeProjectId, viewFilter, searchQuery,
                   recentViewGlobal, archivedTasks, pendingArchive, activeModal,
                   timeouts, now, nextTaskNo, lastCall>>
    /\ UNCHANGED backupVars

\* toggleRecentViewGlobal()
ToggleRecentViewGlobal ==
    /\ NoModal
    /\ recentViewGlobal' = ~recentViewGlobal
    /\ UNCHANGED <<workspaces, projects, columns, tasks, customViews, labels,
                   activeWorkspaceId, activeProjectId, viewFilter, searchQuery,
                   priorityFilter, archivedTasks, pendingArchive, activeModal,
                   timeouts, now, nextTaskNo, lastCall>>
    /\ UNCHANGED backupVars

\* updateCustomView(id, updates)
UpdateCustomView(id, updates) ==
    /\ NoModal
    /\ customViews' = [i \in 1..Len(customViews) |->
                          IF customViews[i].id = id
                          THEN Spread(customViews[i], updates)
                          ELSE customViews[i]]
    /\ UNCHANGED <<workspaces, projects, columns, tasks, labels,
                   activeWorkspaceId, activeProjectId, viewFilter, searchQuery,
                   priorityFilter, recentViewGlobal, archivedTasks,
                   pendingArchive, activeModal, timeouts, now, nextTaskNo,
                   lastCall>>
    /\ AutoBackupEffect

\* The sidebar's globe button on a custom view's row:
\* updateCustomView(view.id, { allWorkspaces: !view.allWorkspaces })
ToggleViewScope(id) ==
    \E i \in 1..Len(customViews) :
        /\ customViews[i].id = id
        /\ UpdateCustomView(id, [allWorkspaces |-> ~customViews[i].allWorkspaces])

ViewNext ==
    \/ \E vf \in {RECENT} \cup Ids(customViews) : SetViewFilter(vf)
    \/ \E p \in Ids(filteredProjects) : SelectProject(p)
    \/ \E w \in Ids(workspaces) : SelectWorkspace(w)
    \/ \E query \in SearchInputs : SetSearchQuery(query)
    \/ \E priority \in PriorityInputs : SetPriorityFilter(priority)
    \/ ToggleRecentViewGlobal
    \/ \E v \in Ids(customViews) : ToggleViewScope(v)

ViewSpec == ViewInit /\ [][ViewNext]_vars

\* ---------------------------------------------------- view resolver claims

\* The custom view viewFilter names, as a 0/1-sequence.
ActiveView ==
    LET named == {i \in 1..Len(customViews) : customViews[i].id = viewFilter}
    IN IF named = {} THEN <<>>
       ELSE <<customViews[CHOOSE i \in named : \A j \in named : i <= j]>>

\* The workspace boundary applies: the view is neither a custom view across
\* all workspaces nor the recent view across all workspaces.
BoundaryApplies ==
    /\ ~(ActiveView # <<>> /\ ActiveView[1].allWorkspaces)
    /\ ~(viewFilter = RECENT /\ recentViewGlobal)

\* The task's project is a project of the active workspace.
InActiveWorkspace(t) ==
    \E i \in 1..Len(projects) :
        /\ projects[i].id = t.projectId
        /\ projects[i].workspaceId = activeWorkspaceId

\* Two tokens that are one letter in either case.
CasePairs == { <<"A", "a">>, <<"B", "b">>, <<"T", "t">>, <<"D", "d">> }

\* Two strings are equal ignoring case.
EqualIgnoringCase(a, b) ==
    /\ Len(a) = Len(b)
    /\ \A i \in 1..Len(a) :
           \/ a[i] = b[i]
           \/ <<a[i], b[i]>> \in CasePairs
           \/ <<b[i], a[i]>> \in CasePairs

\* String s has a substring equal to q ignoring case.
ContainsIgnoringCase(s, q) ==
    \E i \in 0..Len(s) : \E j \in i..Len(s) :
        EqualIgnoringCase(SubSeq(s, i + 1, j), q)

\* The values of a view's filter: a scalar is a set of one.
FilterValues(view) ==
    IF view.filterValue.isArray
    THEN {view.filterValue.value[i] : i \in 1..Len(view.filterValue.value)}
    ELSE {view.filterValue.value}

\* The task has a label equal, ignoring case, to a value of the view's filter.
HasFilterLabel(t, view) ==
    \E i \in 1..Len(t.labels) : \E v \in FilterValues(view) :
        EqualIgnoringCase(t.labels[i], v)

PassesBoundary(t) == BoundaryApplies => InActiveWorkspace(t)

PassesView(t) ==
    CASE viewFilter = PROJECT -> t.projectId = activeProjectId
      [] viewFilter = RECENT -> TRUE
      [] viewFilter \notin {PROJECT, RECENT} /\ ActiveView # <<>> ->
             IF ActiveView[1].filterType = "priority"
             THEN /\ ~ActiveView[1].filterValue.isArray
                  /\ t.priority = ActiveView[1].filterValue.value
             ELSE HasFilterLabel(t, ActiveView[1])
      [] OTHER -> TRUE

PassesSearch(t) ==
    \/ searchQuery = <<>>
    \/ ContainsIgnoringCase(t.title, searchQuery)
    \/ ContainsIgnoringCase(t.description, searchQuery)

PassesOverride(t) == priorityFilter # <<>> => t.priority = priorityFilter

\* C18 (view resolution): for every collection of tasks, active workspace,
\* active project, view, priority override, search query and scope of the
\* recent view, the visible tasks are exactly the live tasks, in their order,
\* that pass the workspace boundary when it applies, the view's predicate,
\* the case-insensitive search of title or description, and the priority
\* override when it is set.
C18_FourStages ==
    filteredTasks =
        SelectSeq(tasks, LAMBDA t : /\ PassesBoundary(t)
                                    /\ PassesView(t)
                                    /\ PassesSearch(t)
                                    /\ PassesOverride(t))

\* Under a priority view, with a search query in the other case and the
\* priority override set, one of the two live tasks is visible.
C18_Witness ==
    /\ viewFilter = ViewId(1)
    /\ searchQuery = <<"T">>
    /\ priorityFilter = <<"High">>
    /\ BoundaryApplies
    /\ Len(tasks) = 2
    /\ Ids(filteredTasks) = {TaskId(2)}

\* C19 (workspace boundary): whenever the view is neither a custom view with
\* allWorkspaces nor the recent view with recentViewGlobal, every visible
\* task is of a project whose workspaceId is the active workspace id.
C19_WorkspaceBoundary ==
    BoundaryApplies =>
        \A i \in 1..Len(filteredTasks) : InActiveWorkspace(filteredTasks[i])

\* Under a custom view of the active workspace only, a live task of the
\* other workspace is hidden and a task of the active workspace is visible.
C19_Witness ==
    /\ ActiveView # <<>>
    /\ BoundaryApplies
    /\ \E i \in 1..Len(tasks) : ~InActiveWorkspace(tasks[i])
    /\ filteredTasks # <<>>

\* C20 (label view): under a custom view of filterType 'label', a task that
\* passes the other three stages is visible exactly when one of its labels
\* equals, ignoring case, one of the filter's values, a scalar filter value
\* counting as a set of one.
C20_LabelView ==
    (ActiveView # <<>> /\ ActiveView[1].filterType = "label") =>
        \A i \in 1..Len(tasks) :
            (PassesBoundary(tasks[i]) /\ PassesSearch(tasks[i])
             /\ PassesOverride(tasks[i])) =>
                (tasks[i].id \in Ids(filteredTasks)
                     <=> HasFilterLabel(tasks[i], ActiveView[1]))

\* Under the label view of the scalar value "B", the task labelled "b" is
\* visible and the task without labels is not.
C20_Witness ==
    /\ viewFilter = ViewId(2)
    /\ \E i \in 1..Len(tasks) : tasks[i].labels = << <<"b">> >>
    /\ Len(tasks) = 2
    /\ Ids(filteredTasks) = {TaskId(2)}

\* -------------------------------------------------------- column resolver

\* { id: `virtual-${c.title}`, projectId: 'virtual', title: c.title, color: c.color }
VirtualColumn(c) ==
    [id |-> VirtualId(c.title), projectId |-> "virtual", title |-> c.title,
     color |-> c.color]

\* Mutant: a virtual column for every column of a visible task.
VirtualColumnsOf_Unseen(cols, visible) ==
    LET relevantColumnIds == {visible[i].columnId : i \in 1..Len(visible)}
        kept == SelectSeq(cols, LAMBDA c : c.id \in relevantColumnIds)
    IN [k \in 1..Len(kept) |-> VirtualColumn(kept[k])]

\* The aggregate branch of filteredColumns: columns.forEach pushes a virtual
\* column for column i when its id is a visible task's columnId and its
\* title is not in seenTitles, which holds the titles pushed before i.
VirtualColumnsOf(cols, visible) ==
    LET relevantColumnIds == {visible[i].columnId : i \in 1..Len(visible)}
        pushed(i) ==
            /\ cols[i].id \in relevantColumnIds
            /\ \A j \in 1..(i - 1) :
                   ~(cols[j].id \in relevantColumnIds /\ cols[j].title = cols[i].title)
        kept == SelectSeq([i \in 1..Len(cols) |-> i], pushed)
    IN [k \in 1..Len(kept) |-> VirtualColumn(cols[kept[k]])]

\* Mutant: the project view takes the columns of every project.
ProjectColumnsOf_All(cols, projectId) == cols

\* columns.filter(c => c.projectId === activeProject.id)
ProjectColumnsOf(cols, projectId) ==
    SelectSeq(cols, LAMBDA c : c.projectId = projectId)

\* filteredColumns, for any store and view selection (ap is activeProject).
FilteredColumnsOf(cols, visible, vf, ap) ==
    IF vf = PROJECT /\ ap # <<>>
    THEN ProjectColumnsOf(cols, ap[1].id)
    ELSE VirtualColumnsOf(cols, visible)

filteredColumns ==
    FilteredColumnsOf(columns, filteredTasks, viewFilter, activeProject)

\* colIdToTitle[columnId] of tasksMap, as a 0/1-sequence: the title of the
\* last column of that id.
ColIdToTitle(cols, columnId) ==
    LET hits == SelectSeq(cols, LAMBDA c : c.id = columnId)
    IN IF hits = <<>> THEN <<>> ELSE <<hits[Len(hits)].title>>

\* Mutant: the tasks are grouped by column id alone.
ByTitle_ById(cols, visible, title) ==
    SelectSeq(visible, LAMBDA t : VirtualId(title) = t.columnId)

\* tasksMap.byTitle[title] || []: a task is pushed under its column's title
\* when that title is a non-empty string.
ByTitle(cols, visible, title) ==
    SelectSeq(visible, LAMBDA t :
        LET found == ColIdToTitle(cols, t.columnId)
        IN found # <<>> /\ found[1] # <<>> /\ found[1] = title)

\* Mutant: every bucket holds every visible task.
ById_All(visible, columnId) == visible

\* tasksMap.byId[columnId] || []
ById(visible, columnId) ==
    SelectSeq(visible, LAMBDA t : t.columnId = columnId)

\* columnTasks of the board's render for column col
ColumnTasks(cols, visible, col) ==
    IF startsWith(col.id, VIRTUAL)
    THEN ByTitle(cols, visible, col.title)
    ELSE ById(visible, col.id)

\* `col-${Date.now()}`
ColumnId(ms) == <<"col-", ToString(ms)>>

\* addColumn(): the board's add-section button, shown in the project view
AddColumn ==
    /\ NoModal
    /\ viewFilter = PROJECT
    /\ now < MaxAdds
    /\ LET targetProjectId ==
               IF activeProjectId # "" THEN <<activeProjectId>>
               ELSE IF filteredProjects # <<>> THEN <<filteredProjects[1].id>>
                    ELSE <<>>
       IN columns' =
              IF targetProjectId = <<>> THEN columns
              ELSE Append(columns,
                          [id |-> ColumnId(now), projectId |-> targetProjectId[1],
                           title |-> <<"New Section">>,
                           color |-> "bg-zinc-100 text-zinc-600"])
    /\ now' = now + 1
    /\ UNCHANGED <<workspaces, projects, tasks, activeWorkspaceId,
                   activeProjectId, viewFilter, treeFrame, lastCall>>
    /\ AutoBackupEffect

\* updateColumn(id, title)
UpdateColumn(id, title) ==
    /\ NoModal
    /\ columns' = [i \in 1..Len(columns) |->
                      IF columns[i].id = id
                      THEN Spread(columns[i], [title |-> title])
                      ELSE columns[i]]
    /\ UNCHANGED <<workspaces, projects, tasks, activeWorkspaceId,
                   activeProjectId, viewFilter, treeFrame, now, lastCall>>
    /\ AutoBackupEffect

\* The column header's title input: handleTitleSubmit with a title that is
\* not blank.
RenameColumn(id, title) ==
    /\ trim(title) # <<>>
    /\ UpdateColumn(id, title)

\* The board's columns resolved: sections renamed in the project view, the
\* sidebar's project and Recent rows, tasks added on the board and moved by
\* moveTask to any column.
ResolveNext ==
    \/ \E p \in Ids(filteredProjects) : SelectProject(p)
    \/ SetViewFilter(RECENT)
    \/ \E c \in BoardColumns : RenameColumn(c, TITLE_DONE)
    \/ \E c \in BoardColumns : AddTask(activeProjectId, c)
    \/ \E id \in LiveIds : \E c \in Ids(columns) : MoveTask(id, c)

ResolveSpec == Init /\ [][ResolveNext]_vars

\* ------------------------------------------------- column resolver claims

\* C21 (columns of the project view): whenever viewFilter is 'project', the
\* visible columns are exactly the columns whose projectId is the active
\* project id, in store order, none of them virtual.
C21_ProjectColumns ==
    viewFilter = PROJECT =>
        /\ filteredColumns = SelectSeq(columns, LAMBDA c : c.projectId = activeProjectId)
        /\ \A i \in 1..Len(filteredColumns) :
               /\ ~startsWith(filteredColumns[i].id, VIRTUAL)
               /\ filteredColumns[i].projectId # "virtual"

\* The project view of p2 shows p2's one column, renamed, and none of p1's.
C21_Witness ==
    /\ viewFilter = PROJECT
    /\ activeProjectId = "p2"
    /\ Len(filteredColumns) = 1
    /\ filteredColumns[1].title = TITLE_DONE
    /\ Len(columns) = 3

\* The store positions of the columns of the visible tasks.
VisibleColumnAt ==
    {i \in 1..Len(columns) :
        \E k \in 1..Len(filteredTasks) : filteredTasks[k].columnId = columns[i].id}

\* The store position of the first column of a visible task with this title.
FirstVisibleTitled(title) ==
    CHOOSE i \in VisibleColumnAt :
        /\ columns[i].title = title
        /\ \A j \in VisibleColumnAt : columns[j].title = title => i <= j

\* C22 (virtual columns): in every view other than the project view the
\* visible columns have exactly the titles of the columns of the visible
\* tasks, one column per title, each with id `virtual-<title>` and the color
\* of the first column of a visible task with that title in the store, in
\* the order in which those first columns stand in the store.
C22_VirtualColumns ==
    viewFilter # PROJECT =>
        /\ {filteredColumns[k].title : k \in 1..Len(filteredColumns)}
               = {columns[i].title : i \in VisibleColumnAt}
        /\ \A k, m \in 1..Len(filteredColumns) :
               k < m =>
                   /\ filteredColumns[k].title # filteredColumns[m].title
                   /\ FirstVisibleTitled(filteredColumns[k].title)
                          < FirstVisibleTitled(filteredColumns[m].title)
        /\ \A k \in 1..Len(filteredColumns) :
               /\ filteredColumns[k].id = <<VIRTUAL>> \o filteredColumns[k].title
               /\ filteredColumns[k].color =
                      columns[FirstVisibleTitled(filteredColumns[k].title)].color

\* In the recent view two visible tasks stand in columns of one title and
\* two colors, the store holds an earlier column of that title that has no
\* visible task, and there is one virtual column.
C22_Witness ==
    /\ viewFilter = RECENT
    /\ Len(filteredColumns) = 1
    /\ \E i, j \in VisibleColumnAt : columns[i].color # columns[j].color
    /\ \E i \in 1..Len(columns) :
           i \notin VisibleColumnAt /\ columns[i].title = filteredColumns[1].title

\* The tasks the board lists under the k-th visible column.
Bucket(k) == ColumnTasks(columns, filteredTasks, filteredColumns[k])

\* The task's column has this title.
InColumnTitled(t, title) ==
    \E i \in 1..Len(columns) : columns[i].id = t.columnId /\ columns[i].title = title

\* C23 (title join): in every view other than the project view, the tasks
\* listed under a virtual column are exactly the visible tasks whose column
\* has that column's title, whatever their project, and a visible task whose
\* column exists is listed under one virtual column only; tasks of two
\* projects in columns titled "Done" are both under `virtual-Done`.
C23_TitleJoin ==
    viewFilter # PROJECT =>
        /\ \A k \in 1..Len(filteredColumns) :
               Bucket(k) = SelectSeq(filteredTasks, LAMBDA t :
                               InColumnTitled(t, filteredColumns[k].title))
        /\ \A n \in 1..Len(filteredTasks) :
               (\E i \in 1..Len(columns) : columns[i].id = filteredTasks[n].columnId) =>
                   Cardinality({k \in 1..Len(filteredColumns) :
                                   filteredTasks[n].id \in Ids(Bucket(k))}) = 1

\* In the recent view a task of p1 and a task of p2 stand in two columns
\* titled "Done" and both are listed under the one column `virtual-Done`.
C23_Witness ==
    /\ viewFilter = RECENT
    /\ Len(filteredColumns) = 1
    /\ filteredColumns[1].id = VirtualId(TITLE_DONE)
    /\ Len(Bucket(1)) = 2
    /\ Bucket(1)[1].projectId # Bucket(1)[2].projectId
    /\ Bucket(1)[1].columnId # Bucket(1)[2].columnId
    /\ \A n \in 1..2 : InOwnProject(Bucket(1)[n])

\* The positions among the visible columns whose bucket lists task id.
BucketsOf(id) ==
    {k \in 1..Len(filteredColumns) : id \in Ids(Bucket(k))}

\* The positions among the visible columns of the column with this id.
ShownAt(columnId) ==
    {k \in 1..Len(filteredColumns) : filteredColumns[k].id = columnId}

\* Task id is of project p and column d is a column of p.
OwnColumn(id, d, p) ==
    /\ \E i \in 1..Len(tasks) : tasks[i].id = id /\ tasks[i].projectId = p
    /\ \E j \in 1..Len(columns) : columns[j].id = d /\ columns[j].projectId = p

\* C24 (move then resolve): a moveTask(t, d) step on a task t of project p
\* and a column d of p leaves a state in which the project view of p, with no
\* search and no priority override, lists t in the bucket of d, which is
\* shown once, and in no other bucket; and the same holds of every task
\* standing in a column of its own project whenever its project is viewed.
C24_MoveThenResolve ==
    /\ [][\A t \in LiveIds : \A d \in Ids(columns) :
              (MoveTask(t, d) /\ OwnColumn(t, d, activeProjectId)
               /\ viewFilter = PROJECT /\ searchQuery = <<>> /\ priorityFilter = <<>>) =>
                  /\ Cardinality(ShownAt(d)') = 1
                  /\ BucketsOf(t)' = ShownAt(d)']_vars
    /\ [](\A i \in 1..Len(tasks) :
              (/\ viewFilter = PROJECT /\ searchQuery = <<>> /\ priorityFilter = <<>>
               /\ tasks[i].projectId = activeProjectId
               /\ InOwnProject(tasks[i])) =>
                  /\ Cardinality(ShownAt(tasks[i].columnId)) = 1
                  /\ BucketsOf(tasks[i].id) = ShownAt(tasks[i].columnId))

\* The task made in p1's To Do column was moved to p1's Done column; the
\* project view of p1 counts it in Done and counts the first task alone in
\* To Do.
C24_Witness ==
    /\ lastCall.op = "moveTask"
    /\ lastCall.acted
    /\ lastCall.id = TaskId(2)
    /\ viewFilter = PROJECT
    /\ activeProjectId = "p1"
    /\ Len(filteredColumns) = 2
    /\ filteredColumns[1].title = TITLE_TODO
    /\ filteredColumns[2].title = TITLE_DONE
    /\ Ids(Bucket(1)) = {TaskId(1)}
    /\ Ids(Bucket(2)) = {TaskId(2)}

\* ------------------------------------------------------ invalid-id claims

\* The store: the collections, the active ids and the view.
StoreState ==
    <<workspaces, projects, columns, tasks, customViews, labels, archivedTasks,
      pendingArchive, activeWorkspaceId, activeProjectId, viewFilter>>

\* C25 (invalid ids are no-ops): a deleteProject, deleteWorkspace or moveTask
\* step whose id names no project, workspace or live task leaves the
\* collections, the active ids and viewFilter as they were.
C25_InvalidIdNoOp ==
    [][/\ \A P \in {P_UNKNOWN} \ Ids(projects) :
              DeleteProject(P) => UNCHANGED StoreState
       /\ \A W \in {W_UNKNOWN} \ Ids(workspaces) :
              DeleteWorkspace(W) => UNCHANGED StoreState
       /\ \A t \in {UNKNOWN_ID} \ LiveIds : \A c \in Ids(columns) :
              MoveTask(t, c) => UNCHANGED StoreState]_vars

\* ------------------------------------------------------- names and titles

\* What the prompts and the title inputs are handed: nothing, a space, text.
NameInputs == { <<>>, <<" ">>, <<"N">> }

\* updateWorkspace(id, name)
UpdateWorkspace(id, name) ==
    /\ NoModal
    /\ workspaces' = [i \in 1..Len(workspaces) |->
                         IF workspaces[i].id = id
                         THEN Spread(workspaces[i], [name |-> name])
                         ELSE workspaces[i]]
    /\ UNCHANGED <<projects, columns, tasks, activeWorkspaceId, activeProjectId,
                   viewFilter, treeFrame, now, lastCall>>
    /\ AutoBackupEffect

\* The sidebar's rename-workspace prompt: the dialog's submit button is
\* disabled while the input is blank, and onConfirm(name) calls
\* updateWorkspace when name is truthy.
RenameWorkspace(id, name) ==
    /\ trim(name) # <<>>
    /\ name # <<>>
    /\ UpdateWorkspace(id, name)

\* The task panel's title input: onChange calls updateTask with the field's
\* value, whatever it is.
EditTaskTitle(taskId, value) == UpdateTask(taskId, [title |-> value])

\* Names and titles edited: the sidebar's project rows and rename-workspace
\* prompt, the column header's title input, the board's add button and the
\* task panel's title input.
EditNext ==
    \/ \E p \in Ids(filteredProjects) : SelectProject(p)
    \/ \E w \in Ids(workspaces) : \E name \in NameInputs : RenameWorkspace(w, name)
    \/ \E c \in BoardColumns : \E title \in NameInputs : RenameColumn(c, title)
    \/ \E c \in BoardColumns : AddTask(activeProjectId, c)
    \/ \E id \in LiveIds : \E value \in NameInputs : EditTaskTitle(id, value)

EditSpec == Init /\ [][EditNext]_vars

\* C26 (blank names are rejected): no workspace, project, column or live
\* task ever has an empty or blank name or title.
C26_NoBlankName ==
    /\ \A i \in 1..Len(workspaces) : trim(workspaces[i].name) # <<>>
    /\ \A i \in 1..Len(projects) : trim(projects[i].name) # <<>>
    /\ \A i \in 1..Len(columns) : trim(columns[i].title) # <<>>
    /\ \A i \in 1..Len(tasks) : trim(tasks[i].title) # <<>>

\* ------------------------------------------------------ cascade atomicity

\* A step of one of the cascading deletes.
CascadingDelete ==
    \/ \E W \in Ids(workspaces) : DeleteWorkspace(W)
    \/ \E P \in Ids(projects) : DeleteProject(P)
    \/ \E C \in Ids(columns) : DeleteColumn(C)

\* C27 (cascades are atomic): the state a cascading delete leaves, which is
\* the first its observers see, holds no project of a workspace the step
\* removed, no column or task of a project it removed and no task of a
\* column it removed.
C27_AtomicCascade ==
    [][CascadingDelete =>
          /\ \A i \in 1..Len(projects') :
                 projects'[i].workspaceId \notin Ids(workspaces) \ Ids(workspaces')
          /\ \A i \in 1..Len(columns') :
                 columns'[i].projectId \notin Ids(projects) \ Ids(projects')
          /\ \A i \in 1..Len(tasks') :
                 /\ tasks'[i].projectId \notin Ids(projects) \ Ids(projects')
                 /\ tasks'[i].columnId \notin Ids(columns) \ Ids(columns')]_vars

\* -------------------------------------------------------- archive marking

\* C28 (archivedAt tracks archive membership): every task of the archived
\* collection carries archivedAt, and no task of the live collection and no
\* task in the pending slot carries it.
C28_ArchivedAtMembership ==
    /\ \A i \in 1..Len(archivedTasks) : HasArchivedAt(archivedTasks[i])
    /\ \A i \in 1..Len(tasks) : ~HasArchivedAt(tasks[i])
    /\ \A i \in 1..Len(pendingArchive) : ~HasArchivedAt(pendingArchive[i].task)

\* A task has just come back from the archive and is live, while another
\* task is still archived.
C28_Witness ==
    /\ RestoreActed
    /\ lastCall.id \in LiveIds
    /\ archivedTasks # <<>>

\* ------------------------------------------------------ viewFilter domain

\* C29 (viewFilter stays in its domain): in every state viewFilter is
\* 'project', 'recent' or the id of a custom view that exists.
C29_ViewFilterDomain ==
    viewFilter \in {PROJECT, RECENT} \cup Ids(customViews)

\* ------------------------------------------------------------ label store

\* `lbl-${Date.now()}`
LabelId(ms) == <<"lbl-", ToString(ms)>>

L_UNKNOWN == <<"lbl-none">>

\* What is not touched by the operations on the label store.
labelFrame ==
    <<workspaces, projects, columns, customViews, activeWorkspaceId,
      activeProjectId, viewFilter, searchQuery, priorityFilter,
      recentViewGlobal, archivedTasks, pendingArchive, activeModal, timeouts,
      nextTaskNo, lastCall>>

\* addLabel(name, color)
AddLabel(name, color) ==
    /\ NoModal
    /\ now < MaxAdds
    /\ labels' = Append(labels, [id |-> LabelId(now), name |-> name, color |-> color])
    /\ now' = now + 1
    /\ UNCHANGED <<tasks, labelFrame>>
    /\ AutoBackupEffect

\* Mutant: a rename is carried into the tasks that have the label.
UpdateLabel_Cascade(id, updates) ==
    /\ NoModal
    /\ labels' = [i \in 1..Len(labels) |->
                     IF labels[i].id = id THEN Spread(labels[i], updates)
                     ELSE labels[i]]
    /\ tasks' = [i \in 1..Len(tasks) |->
                    Spread(tasks[i],
                           [labels |-> [k \in 1..Len(tasks[i].labels) |->
                               IF /\ "name" \in DOMAIN updates
                                  /\ \E j \in 1..Len(labels) :
                                         /\ labels[j].id = id
                                         /\ labels[j].name = tasks[i].labels[k]
                               THEN updates.name
                               ELSE tasks[i].labels[k]]])]
    /\ UNCHANGED <<labelFrame, now>>
    /\ AutoBackupEffect

\* updateLabel(id, updates)
UpdateLabel(id, updates) ==
    /\ NoModal
    /\ labels' = [i \in 1..Len(labels) |->
                     IF labels[i].id = id THEN Spread(labels[i], updates)
                     ELSE labels[i]]
    /\ UNCHANGED <<tasks, labelFrame, now>>
    /\ AutoBackupEffect

\* deleteLabel(id)
DeleteLabel(id) ==
    /\ NoModal
    /\ labels' = SelectSeq(labels, LAMBDA l : l.id # id)
    /\ UNCHANGED <<tasks, labelFrame, now>>
    /\ AutoBackupEffect

\* The updates the label manager passes: a rename and a recolor.
LabelUpdates == { [name |-> <<"r">>], [color |-> "bg-red-500"] }

\* The task panel's addLabel(labelName): the trimmed name is appended to the
\* task's labels unless the task has it in some case, and added to the
\* label store unless the store has it in some case.
TagTask(taskId, labelName) ==
    /\ NoModal
    /\ \E i \in 1..Len(tasks) :
           /\ tasks[i].id = taskId
           /\ LET trimmed == trim(labelName)
                  existsInStore ==
                      \E j \in 1..Len(labels) :
                          toLowerCase(labels[j].name) = toLowerCase(trimmed)
              IN /\ trimmed # <<>>
                 /\ ~\E k \in 1..Len(tasks[i].labels) :
                         toLowerCase(tasks[i].labels[k]) = toLowerCase(trimmed)
                 /\ existsInStore \/ now < MaxAdds
                 /\ tasks' = UpdatedTasks(tasks, taskId,
                                          [labels |-> Append(tasks[i].labels, trimmed)])
                 /\ labels' =
                        IF existsInStore THEN labels
                        ELSE Append(labels, [id |-> LabelId(now), name |-> trimmed,
                                             color |-> "bg-slate-500"])
                 /\ now' = IF existsInStore THEN now ELSE now + 1
    /\ UNCHANGED labelFrame
    /\ AutoBackupEffect

\* The label store: the task panel's label input, the label manager's rename,
\* recolor and delete, tasks added on the board and deleted.
LabelNext ==
    \/ \E id \in LiveIds : TagTask(id, <<"b", " ">>)
    \/ \E id \in Ids(labels) \cup {L_UNKNOWN} : \E u \in LabelUpdates : UpdateLabel(id, u)
    \/ \E id \in Ids(labels) \cup {L_UNKNOWN} : DeleteLabel(id)
    \/ \E c \in BoardColumns : AddTask(activeProjectId, c)
    \/ \E id \in LiveIds : DeleteTask(id)

LabelSpec == Init /\ [][LabelNext]_vars

\* The labels arrays of the live tasks, the archived tasks and the task in
\* the pending slot.
TaskLabels ==
    << [i \in 1..Len(tasks) |-> tasks[i].labels],
       [i \in 1..Len(archivedTasks) |-> archivedTasks[i].labels],
       [i \in 1..Len(pendingArchive) |-> pendingArchive[i].task.labels] >>

\* C30 (label references do not cascade): an updateLabel step, a rename or a
\* recolor, and a deleteLabel step leave the labels arrays of every live
\* task and every archived task as they were.
C30_LabelsDoNotCascade ==
    [][((\E id \in Ids(labels) \cup {L_UNKNOWN} : \E u \in LabelUpdates :
             UpdateLabel(id, u))
        \/ (\E id \in Ids(labels) \cup {L_UNKNOWN} : DeleteLabel(id)))
           => TaskLabels' = TaskLabels]_vars

\* The label "b" of an archived task is in the store under its new name
\* only.
C30_Witness ==
    /\ \E i \in 1..Len(archivedTasks) : archivedTasks[i].labels = << <<"b">> >>
    /\ \E j \in 1..Len(labels) : labels[j].name = <<"r">>
    /\ ~\E j \in 1..Len(labels) : toLowerCase(labels[j].name) = <<"b">>

\* ------------------------------------------------------ auto-backup session

\* performAutoBackup() with the directory's permission granted or not: the
\* file stuff-auto-backup.json is written only when it is.
WithBackup(log, by, granted) ==
    IF granted
    THEN [log EXCEPT !.writes = Append(@, [at |-> now, by |-> by])]
    ELSE log

\* enableAutoBackup() with a directory picked: the flag is set, a backup is
\* written at once, and the effect runs for the flag's change.
EnableAutoBackup(granted) ==
    /\ NoModal
    /\ ~isAutoBackupEnabled
    /\ Len(backupLog.writes) < MaxBackups
    /\ isAutoBackupEnabled' = TRUE
    /\ LET cleared == ClearBackupTimeout(backupTimeouts, backupTimeoutRef)
           handle == FreshTimeoutId(cleared)
       IN /\ backupTimeouts' =
                 cleared \cup {[id |-> handle, due |-> now + BACKUP_DEBOUNCE_MS]}
          /\ backupTimeoutRef' = <<handle>>
    /\ backupLog' = [WithBackup(backupLog, "enable", granted)
                         EXCEPT !.armedAt = <<now>>]
    /\ UNCHANGED <<storeVars, tasks, archivedTasks, pendingArchive, activeModal,
                   timeouts, now, nextTaskNo, lastCall, backupFile>>

\* disableAutoBackup(): the flag is cleared and the effect's cleanup clears
\* the timeout.
DisableAutoBackup ==
    /\ NoModal
    /\ isAutoBackupEnabled
    /\ isAutoBackupEnabled' = FALSE
    /\ RunAutoBackupEffect(FALSE)
    /\ UNCHANGED <<storeVars, tasks, archivedTasks, pendingArchive, activeModal,
                   timeouts, now, nextTaskNo, lastCall, backupFile>>

\* The callback of the effect's timeout, 30 s after it was armed or later:
\* it was armed in a render with the flag set, so it goes on to
\* performAutoBackup().
BackupTimeoutFires(tm, granted) ==
    /\ tm \in backupTimeouts
    /\ now >= tm.due
    /\ backupTimeouts' = backupTimeouts \ {tm}
    /\ backupLog' = WithBackup(backupLog, "timeout", granted)
    /\ UNCHANGED <<storeVars, tasks, archivedTasks, pendingArchive, activeModal,
                   timeouts, now, nextTaskNo, lastCall, isAutoBackupEnabled,
                   backupTimeoutRef, backupFile>>

\* Time passes in a session with auto-backup.
BackupTick ==
    /\ now < MaxBackupNow
    /\ now' = now + BackupTickMs
    /\ UNCHANGED <<storeVars, tasks, archivedTasks, pendingArchive, activeModal,
                   timeouts, nextTaskNo, lastCall, backupVars>>

\* A session with auto-backup: the settings' switch, tasks added and edited,
\* sections renamed, the sidebar's project rows, the backup timeout and time.
BackupNext ==
    \/ \E granted \in BOOLEAN : EnableAutoBackup(granted)
    \/ DisableAutoBackup
    \/ \E c \in BoardColumns : AddTask(activeProjectId, c)
    \/ \E id \in LiveIds : \E u \in TaskUpdates : UpdateTask(id, u)
    \/ \E c \in BoardColumns : RenameColumn(c, TITLE_DONE)
    \/ \E p \in Ids(filteredProjects) : SelectProject(p)
    \/ \E tm \in backupTimeouts : \E granted \in BOOLEAN : BackupTimeoutFires(tm, granted)
    \/ BackupTick

BackupSpec == Init /\ [][BackupNext]_vars

\* What the Auto-Backup effect depends on, the flag apart.
BackedUp == <<workspaces, projects, tasks, columns, customViews, labels>>

\* The step writes a backup file from the effect's timeout.
TimeoutWrites ==
    /\ Len(backupLog'.writes) = Len(backupLog.writes) + 1
    /\ backupLog'.writes[Len(backupLog'.writes)].by = "timeout"

BACKUP_KEYS ==
    {"stuff_workspaces", "stuff_projects", "stuff_tasks", "stuff_columns",
     "stuff_customViews", "stuff_labels"}

\* The values of a backup's top-level keys, as JSON.parse returns them.
JsonArray(items) == [kind |-> "array", items |-> items]
JsonNumber(n) == [kind |-> "number", n |-> n]
JsonNull == [kind |-> "null"]

\* if (value): null and 0 are falsy; an array is truthy, the empty one too.
Truthy(v) == v.kind = "array" \/ (v.kind = "number" /\ v.n # 0)

\* JSON.stringify(value): the text of a file or of a localStorage entry, a
\* string that is empty (<<>>) or holds the JSON of one value.  No value of
\* the model has a field that is undefined, a function or a Date, which are
\* what JSON text does not keep.
stringify(value) == <<value>>

\* JSON.parse(text)
parse(text) == text[1]

\* localStorage as the store's save effects leave it after each render.
localStorage ==
    [stuff_workspaces |-> stringify(JsonArray(workspaces)),
     stuff_projects |-> stringify(JsonArray(projects)),
     stuff_tasks |-> stringify(JsonArray(tasks)),
     stuff_columns |-> stringify(JsonArray(columns)),
     stuff_customViews |-> stringify(JsonArray(customViews)),
     stuff_labels |-> stringify(JsonArray(labels)),
     stuff_archivedTasks |-> stringify(JsonArray(archivedTasks))]

\* The data exportData and performAutoBackup collect: every key of
\* STORAGE_KEYS that localStorage holds, then timestamp and version.
BackupData ==
    [k \in {key \in BACKUP_KEYS : localStorage[key] # <<>>}
           \cup {"timestamp", "version"} |->
        IF k = "timestamp" THEN JsonNumber(now)
        ELSE IF k = "version" THEN JsonNumber(1)
        ELSE parse(localStorage[k])]

\* The seven collections of the store.
Collections ==
    [workspaces |-> workspaces, projects |-> projects, tasks |-> tasks,
     columns |-> columns, customViews |-> customViews, labels |-> labels,
     archivedTasks |-> archivedTasks]

\* exportData(): the file downloaded (content), and for the history the
\* collections of the store it was made from.
ExportData ==
    /\ NoModal
    /\ backupFile' = <<[content |-> stringify(BackupData), from |-> Collections]>>
    /\ UNCHANGED <<storeVars, tasks, archivedTasks, pendingArchive, activeModal,
                   timeouts, now, nextTaskNo, lastCall, isAutoBackupEnabled,
                   backupTimeoutRef, backupTimeouts, backupLog>>

\* data[key], truthy
Has(data, key) == key \in DOMAIN data /\ Truthy(data[key])

\* Mutant: a file is accepted when it has any key of STORAGE_KEYS.
Accepts_AnyKey(content) ==
    /\ content # <<>>
    /\ \E key \in BACKUP_KEYS : Has(parse(content), key)

\* importData's validation: the file has content, and its data
\* stuff_workspaces or stuff_projects.
Accepts(content) ==
    /\ content # <<>>
    /\ Has(parse(content), "stuff_workspaces") \/ Has(parse(content), "stuff_projects")

\* A collection after importData and the reload: loadFromStorage of the
\* entry importData set from data[key], or of the entry the store had
\* saved when the data has no such key.
Loaded(data, key) ==
    IF Has(data, key) THEN parse(stringify(data[key])).items
    ELSE parse(localStorage[key]).items

\* The files given to the import: the file downloaded, an empty file, and
\* files made by hand, with the tasks alone, with the tasks and a
\* stuff_workspaces that is null, with the first projects alone, and with
\* no collection.
ImportInputs ==
    {backupFile[i].content : i \in 1..Len(backupFile)}
        \cup { <<>>,
               stringify([stuff_tasks |-> JsonArray(INITIAL_TASKS)]),
               stringify([stuff_workspaces |-> JsonNull,
                          stuff_tasks |-> JsonArray(INITIAL_TASKS)]),
               stringify([stuff_projects |-> JsonArray(INITIAL_PROJECTS)]),
               stringify([version |-> JsonNumber(1)]) }

\* The store's importData(file): backupUtils' importData, then on success
\* window.location.reload().  The provider mounts again: the collections,
\* the selection, the flags and the archive are loaded from localStorage,
\* the rest starts from its defaults, no timeout of the page before is
\* armed, and the effects run.
ImportData(content) ==
    /\ NoModal
    /\ backupLog.imports < MaxImports
    /\ lastCall' = [op |-> "importData", id |-> <<>>, acted |-> Accepts(content),
                    pre |-> content]
    /\ IF ~Accepts(content)
       THEN /\ backupLog' = [backupLog EXCEPT !.imports = @ + 1]
            /\ UNCHANGED <<storeVars, tasks, archivedTasks, pendingArchive,
                           activeModal, timeouts, isAutoBackupEnabled,
                           backupTimeoutRef, backupTimeouts>>
       ELSE LET data == parse(content)
                ensured == EnsureActiveProject(Loaded(data, "stuff_projects"),
                                               activeWorkspaceId, activeProjectId,
                                               PROJECT)
            IN /\ workspaces' = Loaded(data, "stuff_workspaces")
               /\ projects' = Loaded(data, "stuff_projects")
               /\ tasks' = Loaded(data, "stuff_tasks")
               /\ columns' = Loaded(data, "stuff_columns")
               /\ customViews' = Loaded(data, "stuff_customViews")
               /\ labels' = Loaded(data, "stuff_labels")
               /\ archivedTasks' = parse(localStorage.stuff_archivedTasks).items
               /\ activeProjectId' = ensured.activeProjectId
               /\ viewFilter' = ensured.viewFilter
               /\ searchQuery' = <<>>
               /\ priorityFilter' = <<>>
               /\ pendingArchive' = <<>>
               /\ activeModal' = <<>>
               /\ timeouts' = {}
               /\ IF isAutoBackupEnabled
                  THEN /\ backupTimeouts' = {[id |-> 1, due |-> now + BACKUP_DEBOUNCE_MS]}
                       /\ backupTimeoutRef' = <<1>>
                       /\ backupLog' = [backupLog EXCEPT !.armedAt = <<now>>,
                                                         !.imports = @ + 1]
                  ELSE /\ backupTimeouts' = {}
                       /\ backupTimeoutRef' = <<>>
                       /\ backupLog' = [backupLog EXCEPT !.imports = @ + 1]
               /\ UNCHANGED <<activeWorkspaceId, recentViewGlobal,
                              isAutoBackupEnabled>>
    /\ UNCHANGED <<now, nextTaskNo, backupFile>>

\* Backups by hand: the export and the import of the settings, and tasks
\* added on the board and deleted.
ImportNext ==
    \/ ExportData
    \/ \E content \in ImportInputs : ImportData(content)
    \/ \E c \in BoardColumns : AddTask(activeProjectId, c)
    \/ \E id \in LiveIds : DeleteTask(id)

ImportSpec == Init /\ [][ImportNext]_vars

\* The keys of STORAGE_KEYS that the data of a file holds, with any value.
KeysOf(content) ==
    IF content = <<>> THEN {} ELSE BACKUP_KEYS \cap DOMAIN parse(content)

\* The collections a backup is about.
BackedUpCollections ==
    <<workspaces, projects, tasks, columns, customViews, labels>>

\* C32 as stated: an import is accepted exactly when the file's data holds
\* one of the keys workspaces, projects, tasks, columns, customViews and
\* labels, and an import that is rejected changes no collection.
C32_ImportValidation_AsStated ==
    [][\A content \in ImportInputs :
           ImportData(content) =>
               /\ lastCall'.acted <=> KeysOf(content) # {}
               /\ ~lastCall'.acted => UNCHANGED BackedUpCollections]_vars

\* C32: an import is accepted exactly when the file's data holds an array
\* under stuff_workspaces or under stuff_projects; an import that is
\* rejected changes no collection, and one that is accepted replaces every
\* collection the data holds an array for and leaves the others as they
\* were.
C32_ImportValidation ==
    [][\A content \in ImportInputs :
           ImportData(content) =>
               /\ lastCall'.acted <=>
                      \E key \in {"stuff_workspaces", "stuff_projects"} :
                          /\ key \in KeysOf(content)
                          /\ parse(content)[key].kind = "array"
               /\ ~lastCall'.acted =>
                      UNCHANGED <<BackedUpCollections, archivedTasks>>
               /\ lastCall'.acted =>
                      /\ "stuff_tasks" \in KeysOf(content) =>
                             tasks' = parse(content).stuff_tasks.items
                      /\ "stuff_tasks" \notin KeysOf(content) => tasks' = tasks
                      /\ "stuff_projects" \in KeysOf(content) =>
                             projects' = parse(content).stuff_projects.items
                      /\ "stuff_projects" \notin KeysOf(content) =>
                             projects' = projects]_vars

\* A file with the tasks and a null stuff_workspaces was rejected, and
\* the store holds a task the file does not.
C32_Witness ==
    /\ lastCall.op = "importData"
    /\ ~lastCall.acted
    /\ KeysOf(lastCall.pre) = {"stuff_workspaces", "stuff_tasks"}
    /\ Len(tasks) = 2

\* C33: after the import of the file that the export made, the seven
\* collections are those of the store the file was made from.
C33_RoundTrip ==
    (/\ lastCall.op = "importData"
     /\ lastCall.acted
     /\ backupFile # <<>>
     /\ lastCall.pre = backupFile[1].content)
        => Collections = backupFile[1].from

\* ----------------------------------------------------------------- subtasks

\* `st-${Date.now()}`
SubtaskId(ms) == <<"st-", ToString(ms)>>

\* What destructuring gives for an element the array does not have.
UNDEFINED == [undefined |-> TRUE]

\* t.subtasks || []
SubtasksOf(t) == IF "subtasks" \in DOMAIN t THEN t.subtasks ELSE <<>>

\* splice's start, as a count of the elements before it: a negative start
\* counts from the end, and the result is kept within 0..length.
SpliceStart(len, start) ==
    IF start < 0
    THEN (IF len + start < 0 THEN 0 ELSE len + start)
    ELSE (IF start > len THEN len ELSE start)

\* const [removed] = a.splice(fromIndex, 1): the array that is left
SpliceOut(a, fromIndex) ==
    LET s == SpliceStart(Len(a), fromIndex)
    IN SubSeq(a, 1, s) \o SubSeq(a, s + 2, Len(a))

\* const [removed] = a.splice(fromIndex, 1): removed
Removed(a, fromIndex) ==
    LET s == SpliceStart(Len(a), fromIndex)
    IN IF s < Len(a) THEN a[s + 1] ELSE UNDEFINED

\* a.splice(toIndex, 0, item)
SpliceIn(a, toIndex, item) ==
    LET s == SpliceStart(Len(a), toIndex)
    IN SubSeq(a, 1, s) \o <<item>> \o SubSeq(a, s + 1, Len(a))

\* reorderSubtasks: newSubtasks after the two splices
Reordered(subtasks, fromIndex, toIndex) ==
    SpliceIn(SpliceOut(subtasks, fromIndex), toIndex, Removed(subtasks, fromIndex))

\* addSubtask(taskId, title)
AddSubtask(taskId, title) ==
    /\ NoModal
    /\ \A i \in 1..Len(tasks) :
           tasks[i].id = taskId => Len(SubtasksOf(tasks[i])) < MaxSubtasks
    /\ tasks' = [i \in 1..Len(tasks) |->
                    IF tasks[i].id = taskId
                    THEN Spread(tasks[i],
                                [subtasks |->
                                     Append(SubtasksOf(tasks[i]),
                                            [id |-> SubtaskId(now), title |-> title,
                                             completed |-> FALSE])])
                    ELSE tasks[i]]
    /\ now' = now + 1
    /\ UNCHANGED <<storeVars, archivedTasks, pendingArchive, activeModal,
                   timeouts, nextTaskNo, lastCall>>
    /\ AutoBackupEffect

\* toggleSubtask(taskId, subtaskId); st.id throws on an entry that is
\* undefined, and then nothing is set.
ToggleSubtask(taskId, subtaskId) ==
    /\ NoModal
    /\ \A i \in 1..Len(tasks) : \A k \in 1..Len(SubtasksOf(tasks[i])) :
           tasks[i].id = taskId => tasks[i].subtasks[k] # UNDEFINED
    /\ tasks' = [i \in 1..Len(tasks) |->
                    IF tasks[i].id = taskId /\ "subtasks" \in DOMAIN tasks[i]
                    THEN Spread(tasks[i],
                                [subtasks |->
                                     [k \in 1..Len(tasks[i].subtasks) |->
                                         IF tasks[i].subtasks[k].id = subtaskId
                                         THEN Spread(tasks[i].subtasks[k],
                                                     [completed |->
                                                          ~tasks[i].subtasks[k].completed])
                                         ELSE tasks[i].subtasks[k]]])
                    ELSE tasks[i]]
    /\ UNCHANGED <<storeVars, archivedTasks, pendingArchive, activeModal,
                   timeouts, now, nextTaskNo, lastCall>>
    /\ AutoBackupEffect

\* reorderSubtasks(taskId, fromIndex, toIndex)
ReorderSubtasks(taskId, fromIndex, toIndex) ==
    /\ NoModal
    /\ \A i \in 1..Len(tasks) :
           tasks[i].id = taskId => Len(SubtasksOf(tasks[i])) <= MaxSubtasks
    /\ tasks' = [i \in 1..Len(tasks) |->
                    IF tasks[i].id = taskId /\ "subtasks" \in DOMAIN tasks[i]
                    THEN Spread(tasks[i],
                                [subtasks |->
                                     Reordered(tasks[i].subtasks, fromIndex, toIndex)])
                    ELSE tasks[i]]
    /\ UNCHANGED <<storeVars, archivedTasks, pendingArchive, activeModal,
                   timeouts, now, nextTaskNo, lastCall>>
    /\ AutoBackupEffect

\* The indexes given to reorderSubtasks: those of the longest list, one
\* before them and one after them.
SubtaskIndexes == (0 - 1)..MaxSubtasks

\* The subtasks of a task: added, ticked and reordered by the store's
\* reorderSubtasks, on the first task and on tasks added on the board.
SubtaskNext ==
    \/ \E c \in BoardColumns : AddTask(activeProjectId, c)
    \/ \E id \in LiveIds : AddSubtask(id, <<"s">>)
    \/ \E id \in LiveIds : \E i \in 1..Len(tasks) : \E k \in 1..Len(SubtasksOf(tasks[i])) :
           /\ tasks[i].id = id
           /\ tasks[i].subtasks[k] # UNDEFINED
           /\ ToggleSubtask(id, tasks[i].subtasks[k].id)
    \/ \E id \in LiveIds : \E from, to \in SubtaskIndexes : ReorderSubtasks(id, from, to)

SubtaskSpec == Init /\ [][SubtaskNext]_vars

\* The subtasks of the live task id in the collection ts.
SubtasksIn(ts, id) ==
    LET hit == FindTask(ts, id) IN IF hit = <<>> THEN <<>> ELSE SubtasksOf(hit[1])

\* The sequence s without its element at index i (from 0).
Without(s, i) == SubSeq(s, 1, i) \o SubSeq(s, i + 2, Len(s))

\* C34: reorderSubtasks(t, from, to) with both indexes in the list gives a
\* list of the same length with the subtask that was at from now at to and
\* the others in the order they had; with an index outside the list it
\* leaves the list as it was.
C34_ReorderPermutation ==
    [][\A id \in LiveIds : \A from, to \in SubtaskIndexes :
           ReorderSubtasks(id, from, to) =>
               LET old == SubtasksIn(tasks, id)
                   new == SubtasksIn(tasks', id)
               IN IF from \in 0..(Len(old) - 1) /\ to \in 0..(Len(old) - 1)
                  THEN /\ Len(new) = Len(old)
                       /\ new[to + 1] = old[from + 1]
                       /\ Without(new, to) = Without(old, from)
                  ELSE new = old]_vars

\* ------------------------------------------------------------ task location

\* How many entries the live collection, the pending slot and the archived
\* collection have for the task id, taken together.
Occurrences(id) ==
    Len(SelectSeq(tasks, LAMBDA t : t.id = id))
        + Len(SelectSeq(pendingArchive, LAMBDA p : p.task.id = id))
        + Len(SelectSeq(archivedTasks, LAMBDA t : t.id = id))

\* C35: no task id has more than one entry in the live collection, the
\* pending slot and the archived collection together, and a step other than
\* permanentlyDeleteTask leaves a task that has one entry with one entry.
C35_ExclusiveLocation ==
    [][\A id \in IssuedIds' :
           /\ Occurrences(id)' <= 1
           /\ (Occurrences(id) = 1 /\ lastCall'.op # "permanentlyDeleteTask")
                  => Occurrences(id)' = 1]_vars

\* ------------------------------------------------- cascades and the archive

\* The board's own column titled To Do.
BoardTodoColumn ==
    {c \in BoardColumns : \E j \in 1..Len(columns) :
                              columns[j].id = c /\ columns[j].title = TITLE_TODO}

\* Tasks that return after a cascade: tasks added to the board's To Do
\* column and deleted from their cards, undo and restore, and that column
\* and the projects deleted.
ReturnNext ==
    \/ \E p \in Ids(filteredProjects) : SelectProject(p)
    \/ \E c \in BoardTodoColumn : AddTask(activeProjectId, c)
    \/ \E id \in LiveIds : DeleteTask(id)
    \/ UndoArchiveTask
    \/ \E id \in ArchivedIds : RestoreTask(id)
    \/ \E p \in Ids(filteredProjects) : DeleteProject(p)
    \/ \E c \in BoardTodoColumn : DeleteColumn(c)

ReturnSpec == Init /\ [][ReturnNext]_vars

\* C36: every live task's projectId names a project of the store and its
\* columnId names a column of the store.
C36_LiveReferences ==
    \A i \in 1..Len(tasks) :
        /\ tasks[i].projectId \in Ids(projects)
        /\ tasks[i].columnId \in Ids(columns)

\* Cascades while tasks are pending or archived: tasks added to the board's
\* To Do column and deleted from their cards, and that column, the projects
\* and the workspaces deleted.
PurgeNext ==
    \/ \E c \in BoardTodoColumn : AddTask(activeProjectId, c)
    \/ \E id \in LiveIds : DeleteTask(id)
    \/ AddWorkspace(<<"N">>)
    \/ \E w \in Ids(workspaces) : DeleteWorkspace(w)
    \/ \E p \in Ids(filteredProjects) : DeleteProject(p)
    \/ \E c \in BoardTodoColumn : DeleteColumn(c)

PurgeSpec == Init /\ [][PurgeNext]_vars

\* C39: a deleteWorkspace, deleteProject or deleteColumn step leaves the
\* archived collection, the pending slot and its timeout as they were, and
\* no task it removes from the live collection is pending or archived after
\* it.
C39_CascadesBypassArchive ==
    [][CascadingDelete =>
          /\ UNCHANGED <<archivedTasks, pendingArchive, timeouts>>
          /\ \A id \in LiveIds \ LiveIds' :
                 id \notin PendingIds' \cup ArchivedIds']_vars

\* A deleteWorkspace took a task out of the live collection while another
\* task was pending with its timeout armed.
C39_Witness ==
    /\ lastCall.op = "deleteWorkspace"
    /\ lastCall.acted
    /\ lastCall.pre[1].liveTasks > Len(tasks)
    /\ pendingArchive # <<>>
    /\ timeouts # {}

\* ------------------------------------------------------ sections of a board

\* Boards that get sections: the sidebar's project rows, the add-section
\* button, tasks added to the board's columns, and cards dropped on cards.
SectionNext ==
    \/ \E p \in Ids(filteredProjects) : SelectProject(p)
    \/ AddColumn
    \/ \E c \in BoardColumns : AddTask(activeProjectId, c)
    \/ \E id \in LiveIds : \E o \in LiveIds : DragEnd(id, <<o>>)

SectionSpec == Init /\ [][SectionNext]_vars

\* The live task with the id.
TaskOf(ts, id) == FindTask(ts, id)[1]

\* C37: a drag-end over the card of another visible task of the dragged
\* task's project leaves the dragged task in the column of that task.
C37_DropOnTask ==
    [][\A id \in LiveIds : \A o \in Ids(filteredTasks) \ {id} :
           (/\ DragEnd(id, <<o>>)
            /\ TaskOf(tasks, id).projectId = TaskOf(tasks, o).projectId)
               => TaskOf(tasks', id).columnId = TaskOf(tasks, o).columnId]_vars

\* ---------------------------------------------------- buckets of the board

\* C38: in every view each visible task is listed under exactly one of the
\* visible columns, so the sizes of the columns' task lists sum to the
\* number of visible tasks.
C38_OneBucket ==
    \A i \in 1..Len(filteredTasks) :
        Cardinality(BucketsOf(filteredTasks[i].id)) = 1

\* ----------------------------------------------------- the add-task button

\* activeProject ? activeProject.id : (filteredTasks[0]?.projectId || 'p1')
NewTaskProject ==
    IF activeProject # <<>> THEN activeProject[1].id
    ELSE IF filteredTasks # <<>> THEN filteredTasks[1].projectId
         ELSE "p1"

\* customViews.find(v => v.id === viewFilter), as a 0/1-sequence
BoardCustomView ==
    LET hits == SelectSeq(customViews, LAMBDA v : v.id = viewFilter)
    IN IF hits = <<>> THEN <<>> ELSE <<Head(hits)>>

\* initialPriority: the priority of the custom view that is open, if it is a
\* priority view of Low, Medium or High; Medium otherwise.
InitialPriority ==
    IF /\ BoardCustomView # <<>>
       /\ BoardCustomView[1].filterType = "priority"
       /\ BoardCustomView[1].filterValue.value \in {<<"Low">>, <<"Medium">>, <<"High">>}
    THEN BoardCustomView[1].filterValue.value
    ELSE <<"Medium">>

\* initialLabels: the labels of the label view that is open.
InitialLabels ==
    IF BoardCustomView # <<>> /\ BoardCustomView[1].filterType = "label"
    THEN IF BoardCustomView[1].filterValue.isArray
         THEN BoardCustomView[1].filterValue.value
         ELSE <<BoardCustomView[1].filterValue.value>>
    ELSE <<>>

\* columnId.startsWith('virtual-')
IsVirtualId(columnId) == columnId # <<>> /\ Head(columnId) = VIRTUAL

\* targetColumnId: the id given, or for a virtual column the project's
\* column of that title, else the project's first column, else the id given.
TargetColumnId(cols, projectId, columnId) ==
    IF ~IsVirtualId(columnId) THEN columnId
    ELSE LET realCol == ColumnByTitle(cols, projectId, Tail(columnId))
             own == SelectSeq(cols, LAMBDA c : c.projectId = projectId)
         IN IF realCol # <<>> THEN realCol[1].id
            ELSE IF own # <<>> THEN Head(own).id
                 ELSE columnId

\* handleAddNewTask(columnId): the add button of a displayed column. The
\* timer it starts opens the task panel (detailTaskId, state of the board
\* component alone).
HandleAddNewTask(columnId) ==
    /\ NoModal
    /\ nextTaskNo <= MaxTasks
    /\ columnId \in Ids(filteredColumns)
    /\ tasks' = Append(tasks,
                       [id |-> TaskId(nextTaskNo),
                        projectId |-> NewTaskProject,
                        title |-> <<"Untitled Task">>,
                        description |-> <<>>,
                        priority |-> InitialPriority,
                        columnId |-> TargetColumnId(columns, NewTaskProject, columnId),
                        labels |-> InitialLabels])
    /\ nextTaskNo' = nextTaskNo + 1
    /\ lastCall' = Call("handleAddNewTask", columnId, TRUE)
    /\ UNCHANGED <<storeVars, archivedTasks, pendingArchive, activeModal,
                   timeouts, now>>
    /\ AutoBackupEffect

\* The add button on every board: the sidebar's project and Recent rows,
\* sections renamed and deleted in the project view, and the add button of
\* every displayed column.
AddNext ==
    \/ \E p \in Ids(filteredProjects) : SelectProject(p)
    \/ SetViewFilter(RECENT)
    \/ \E c \in BoardColumns : RenameColumn(c, TITLE_DONE)
    \/ \E c \in BoardColumns : DeleteColumn(c)
    \/ \E c \in Ids(filteredColumns) : HandleAddNewTask(c)

AddSpec == Init /\ [][AddNext]_vars

\* C40: the task made by the add button of a displayed column, real or
\* virtual, has the projectId of a project of the store and the columnId of
\* a column of the store that belongs to that project, never a virtual id.
C40_AddedTaskConsistent ==
    [][\A c \in Ids(filteredColumns) :
           HandleAddNewTask(c) =>
               LET t == tasks'[Len(tasks')]
               IN /\ t.projectId \in Ids(projects)
                  /\ ~IsVirtualId(t.columnId)
                  /\ \E j \in 1..Len(columns) :
                         /\ columns[j].id = t.columnId
                         /\ columns[j].projectId = t.projectId]_vars
====
